---- MODULE Spec2Model ----
(***************************************************************************)
(* Model of the encryption layer of the email platform:                    *)
(*   - server/src/controllers/services/encryption.service.ts               *)
(*       AES-256-GCM + PBKDF2 envelope (encrypt / decrypt)                 *)
(*   - src/components/auth/security/EncryptionService.ts                   *)
(*       OpenPGP key pairs, message encryption, signing, the key cache     *)
(*                                                                         *)
(* Strings are sequences of UTF-16 code units, buffers are sequences of    *)
(* bytes (0..255), the hex envelope is a sequence of one-character         *)
(* strings.  The library primitives (PBKDF2, AES-GCM, OpenPGP) are treated *)
(* as ideal: a derived key is determined by and determines its inputs, a   *)
(* tag or signature cannot be forged.  Everything the repository's own     *)
(* code does around them (encodings, slicing, branching, error mapping)    *)
(* is modelled step by step.                                               *)
(***************************************************************************)
EXTENDS Integers, Sequences, FiniteSets, TLC

VARIABLES
  secret,      \* config.encryption.secret in effect
  envelope,    \* the last string returned by encrypt ("none" before)
  origin,      \* what that encrypt call was given and drew (history)
  symCall,     \* the last decrypt call: its input string and how it was made
  symResult,   \* what that call returned or threw
  earlier      \* the encrypt calls before the last one, with what they returned

VARIABLES
  keyCache,    \* EncryptionService.keyCache: identity -> KeyPair
  calls,       \* how many generateKeyPair calls were made
  pending,     \* generateKeyPair calls waiting for openpgp.generateKey
  issued,      \* the key pairs generateKeyPair has returned, in order
  keyResult,   \* what the last finished generateKeyPair call returned or threw
  order,       \* the calls that returned a pair, in order of return (history)
  clearedAt,   \* how many calls had been made at the last clearKeyCache, -1 if none
  lastOp,      \* the key operation that ran last, and its call number (history)
  pgpMsg,      \* the last encryptMessage / encryptFile call and its outcome
  pgpCall,     \* the last decryptMessage / decryptFile call
  pgpResult    \* what that call returned or threw

\* The REST API: the User and Email collections, the mail service, the
\* controllers' requests in progress and the timers of the process.
VARIABLES
  users,       \* the User collection: email -> document
  sentMail,    \* what the mail service has delivered (history)
  tokenSeq,    \* how many tokens were signed or drawn
  cookies,     \* the refresh tokens set in cookies so far
  inflight,    \* refreshToken requests between their read and their save
  response,    \* the response written last
  accepted,    \* refresh tokens that refreshToken answered with 200 (history)
  revoked,     \* refresh tokens presented to logout (history)
  emails,      \* the Email collection: id -> document
  timers,      \* setTimeout callbacks waiting in the process
  clock,       \* Date.now(), in seconds
  delivered    \* ids of the emails the mail service accepted (history)

symVars == <<secret, envelope, origin, symCall, symResult, earlier>>
keyVars == <<keyCache, calls, pending, issued, keyResult, order, clearedAt, lastOp>>
msgVars == <<pgpMsg, pgpCall, pgpResult>>
srvVars == <<users, sentMail, tokenSeq, cookies, inflight, response, accepted, revoked,
             emails, timers, clock, delivered>>
vars == <<secret, envelope, origin, symCall, symResult, earlier,
          keyCache, calls, pending, issued, keyResult, order, clearedAt, lastOp,
          pgpMsg, pgpCall, pgpResult,
          users, sentMail, tokenSeq, cookies, inflight, response, accepted, revoked,
          emails, timers, clock, delivered>>

----------------------------------------------------------------------------
(* Bounds                                                                  *)

\* Longest plaintext, in UTF-16 code units, given to the symmetric encrypt.
MaxLen == 2

\* Most generateKeyPair calls made in one run.
MaxKeys == 2

----------------------------------------------------------------------------
(* Generic helpers                                                         *)

Min(a, b) == IF a < b THEN a ELSE b

RECURSIVE SumTo(_, _)
SumTo(s, n) == IF n = 0 THEN 0 ELSE s[n] + SumTo(s, n - 1)
Sum(s) == SumTo(s, Len(s))

\* Position-weighted sum.
RECURSIVE WSumTo(_, _)
WSumTo(s, n) == IF n = 0 THEN 0 ELSE n * s[n] + WSumTo(s, n - 1)
WSum(s) == WSumTo(s, Len(s))

SeqsUpTo(A, n) == UNION {[1..k -> A] : k \in 0..n}

----------------------------------------------------------------------------
(* UTF-8, as Node's 'utf8' encoding turns a JS string into bytes and back *)

IsHigh(u) == u >= 55296 /\ u <= 56319      \* D800..DBFF
IsLow(u) == u >= 56320 /\ u <= 57343       \* DC00..DFFF
ReplacementChar == 65533                   \* U+FFFD

Utf8OfCodePoint(c) ==
  IF c < 128 THEN <<c>>
  ELSE IF c < 2048 THEN <<192 + (c \div 64), 128 + (c % 64)>>
  ELSE IF c < 65536
    THEN <<224 + (c \div 4096), 128 + ((c \div 64) % 64), 128 + (c % 64)>>
  ELSE <<240 + (c \div 262144), 128 + ((c \div 4096) % 64),
         128 + ((c \div 64) % 64), 128 + (c % 64)>>

\* string -> bytes.  A surrogate pair is one code point; an unpaired
\* surrogate is written as U+FFFD (EF BF BD).  A long string is encoded in
\* two halves, cut where no surrogate pair is split.
RECURSIVE Utf8Encode(_)
Utf8Encode(s) ==
  IF s = <<>> THEN <<>>
  ELSE IF Len(s) > 4
    THEN LET half == Len(s) \div 2
             cut == IF IsHigh(s[half]) /\ IsLow(s[half + 1]) THEN half - 1 ELSE half
         IN Utf8Encode(SubSeq(s, 1, cut)) \o Utf8Encode(SubSeq(s, cut + 1, Len(s)))
  ELSE IF IsHigh(s[1]) /\ Len(s) >= 2 /\ IsLow(s[2])
    THEN Utf8OfCodePoint(65536 + (s[1] - 55296) * 1024 + (s[2] - 56320))
         \o Utf8Encode(SubSeq(s, 3, Len(s)))
  ELSE IF IsHigh(s[1]) \/ IsLow(s[1])
    THEN Utf8OfCodePoint(ReplacementChar) \o Utf8Encode(Tail(s))
  ELSE Utf8OfCodePoint(s[1]) \o Utf8Encode(Tail(s))

IsCont(b) == b >= 128 /\ b < 192

\* bytes -> string.  A byte that starts no valid sequence decodes to U+FFFD.
\* A sequence only ever takes in continuation bytes after its first byte, so
\* a character always starts at a byte that is no continuation byte: long
\* input is decoded in two parts, cut at the such byte nearest the middle.
RECURSIVE Utf8Decode(_)
Utf8Decode(b) ==
  IF b = <<>> THEN <<>>
  ELSE
    LET n == Len(b)
        c2 == (b[1] - 192) * 64 + (b[2] - 128)
        c3 == (b[1] - 224) * 4096 + (b[2] - 128) * 64 + (b[3] - 128)
        c4 == (b[1] - 240) * 262144 + (b[2] - 128) * 4096
              + (b[3] - 128) * 64 + (b[4] - 128)
        half == n \div 2
        starts == {j \in 2..n : ~IsCont(b[j])}
        dist(j) == IF j > half THEN j - half ELSE half - j
        cut == CHOOSE j \in starts : \A k \in starts :
                 dist(j) < dist(k) \/ (dist(j) = dist(k) /\ j <= k)
    IN
    IF n > 8 /\ starts # {}
      THEN Utf8Decode(SubSeq(b, 1, cut - 1)) \o Utf8Decode(SubSeq(b, cut, n))
    ELSE IF b[1] < 128 THEN <<b[1]>> \o Utf8Decode(Tail(b))
    ELSE IF b[1] >= 194 /\ b[1] < 224 /\ n >= 2 /\ IsCont(b[2])
      THEN <<c2>> \o Utf8Decode(SubSeq(b, 3, n))
    ELSE IF b[1] >= 224 /\ b[1] < 240 /\ n >= 3 /\ IsCont(b[2]) /\ IsCont(b[3])
            /\ c3 >= 2048 /\ ~IsHigh(c3) /\ ~IsLow(c3)
      THEN <<c3>> \o Utf8Decode(SubSeq(b, 4, n))
    ELSE IF b[1] >= 240 /\ b[1] < 245 /\ n >= 4 /\ IsCont(b[2]) /\ IsCont(b[3])
            /\ IsCont(b[4]) /\ c4 >= 65536 /\ c4 <= 1114111
      THEN <<55296 + ((c4 - 65536) \div 1024), 56320 + ((c4 - 65536) % 1024)>>
           \o Utf8Decode(SubSeq(b, 5, n))
    ELSE <<ReplacementChar>> \o Utf8Decode(Tail(b))

\* A string with no unpaired surrogate.
RECURSIVE WellFormed(_)
WellFormed(s) ==
  IF s = <<>> THEN TRUE
  ELSE IF IsHigh(s[1]) /\ Len(s) >= 2 /\ IsLow(s[2])
    THEN WellFormed(SubSeq(s, 3, Len(s)))
  ELSE ~IsHigh(s[1]) /\ ~IsLow(s[1]) /\ WellFormed(Tail(s))

----------------------------------------------------------------------------
(* Hex, as Buffer.toString('hex') and Buffer.from(s, 'hex') do it         *)

HexDigits == <<"0", "1", "2", "3", "4", "5", "6", "7",
               "8", "9", "a", "b", "c", "d", "e", "f">>
HexUpper == <<"0", "1", "2", "3", "4", "5", "6", "7",
              "8", "9", "A", "B", "C", "D", "E", "F">>

HexChars == {HexDigits[i] : i \in 1..16} \cup {HexUpper[i] : i \in 1..16}
HexTable ==
  [c \in HexChars |->
     IF \E i \in 1..16 : HexDigits[i] = c
       THEN (CHOOSE i \in 1..16 : HexDigits[i] = c) - 1
       ELSE (CHOOSE i \in 1..16 : HexUpper[i] = c) - 1]

\* The value of a hex digit of either case, -1 for any other character.
HexValue(c) == IF c \in HexChars THEN HexTable[c] ELSE -1

\* Buffer.toString('hex'): two lower-case digits per byte.
HexEncode(bytes) ==
  [i \in 1..(2 * Len(bytes)) |->
     HexDigits[(IF i % 2 = 1 THEN (bytes[(i + 1) \div 2] \div 16)
                             ELSE (bytes[i \div 2] % 16)) + 1]]

\* Buffer.from(s, 'hex'): decoding stops at the first pair that holds a
\* character that is no hex digit; a trailing single character is dropped.
HexDecode(s) ==
  LET n == Len(s) \div 2
      bad == {i \in 1..n : HexValue(s[2 * i - 1]) < 0 \/ HexValue(s[2 * i]) < 0}
      m == IF bad = {} THEN n
           ELSE (CHOOSE i \in bad : \A j \in bad : i <= j) - 1
  IN [i \in 1..m |-> 16 * HexValue(s[2 * i - 1]) + HexValue(s[2 * i])]

\* Buffer.slice(start, end) and Buffer.slice(start): indices are clamped.
Slice(buf, start, end) == SubSeq(buf, Min(start, Len(buf)) + 1, Min(end, Len(buf)))
SliceFrom(buf, start) == SubSeq(buf, Min(start, Len(buf)) + 1, Len(buf))

----------------------------------------------------------------------------
(* Symmetric component: server/src/controllers/services/encryption.service.ts *)

keyLength == 32
ivLength == 16
saltLength == 64
tagLength == 16
iterations == 100000

\* Code units the sampled plaintexts are made of: "a", "e" with acute accent
\* (two UTF-8 bytes), a high and a low surrogate (together U+1F600, alone
\* unpaired).
SymAlphabet == {97, 233, 55357, 56832}
SymPlaintexts == SeqsUpTo(SymAlphabet, MaxLen)

\* Values config.encryption.secret can hold: "s1", "s2" (the configuration
\* is read from UTF-8 text, so a secret is a well-formed string).
Secrets == {<<115, 49>>, <<115, 50>>}

\* Values crypto.randomBytes can return, two per length.
RandomBytes(n) == {[i \in 1..n |-> (37 * seed + 11 * i) % 256] : seed \in {1, 2}}

\* Block size of HMAC-SHA256 in bytes.
HmacBlockSize == 64

\* The key block HMAC works with: a key of at most one block is padded with
\* zero bytes to the block size, a longer key is replaced by its digest
\* first (the digest stands as its length and two checksums).
HmacKeyBlock(pw) ==
  LET short == IF Len(pw) <= HmacBlockSize THEN pw
               ELSE <<Len(pw) % 256, Sum(pw) % 256, WSum(pw) % 256>>
  IN [i \in 1..HmacBlockSize |-> IF i <= Len(short) THEN short[i] ELSE 0]

\* crypto.pbkdf2Sync(password, salt, iterations, keylen, digest): a string
\* password is taken as its UTF-8 bytes, and the derived key is identified
\* with what it is derived from: the HMAC key block, the salt, the iteration
\* count and the length (inputs that differ in one of them do not collide).
PBKDF2(password, salt, iter, keylen) ==
  [password |-> HmacKeyBlock(Utf8Encode(password)), salt |-> salt,
   iter |-> iter, keylen |-> keylen]

\* The bytes of a derived key: keylen bytes that determine the key block (up
\* to its first 24 bytes and two checksums) and the salt.
DerivedBytes(key) ==
  [i \in 1..key.keylen |->
     IF i <= 24 THEN key.password[i]
     ELSE IF i = 25 THEN Sum(key.password) % 256
     ELSE IF i = 26 THEN WSum(key.password) % 256
     ELSE IF i = 27 THEN Sum(key.salt) % 256
     ELSE IF i = 28 THEN WSum(key.salt) % 256
     ELSE IF i = 29 THEN Len(key.salt) % 256
     ELSE IF i = 30 THEN (key.iter \div 1000) % 256
     ELSE 0]

\* The key stream byte of AES in counter mode at position i.
KeyStream(key, iv, i) ==
  (Sum(key.password) + WSum(key.salt) + WSum(iv) + 7 * i) % 256

\* cipher.update + cipher.final in GCM: a stream cipher, byte by byte.
GcmEncryptBytes(key, iv, plain) ==
  [i \in 1..Len(plain) |-> (plain[i] + KeyStream(key, iv, i)) % 256]

\* decipher.update: the inverse under the same key and IV.
GcmDecryptBytes(key, iv, cipher) ==
  [i \in 1..Len(cipher) |-> (cipher[i] + 256 - KeyStream(key, iv, i)) % 256]

\* cipher.getAuthTag(): 16 bytes determined by key, IV and ciphertext.  The
\* layout stands for GHASH under the unforgeability assumption: changing one
\* byte of the salt, the IV or the ciphertext, cutting the ciphertext, or
\* using another secret changes the tag, also within its first four bytes.
GcmTag(key, iv, cipher) ==
  << Len(cipher) % 256, Sum(cipher) % 256,
     Sum(key.password) % 256, Len(key.password) % 256,
     Sum(key.salt) % 256, WSum(key.salt) % 256, Len(key.salt) % 256,
     Sum(iv) % 256, WSum(iv) % 256, Len(iv) % 256,
     WSum(cipher) % 256, WSum(key.password) % 256,
     key.keylen % 256, (key.iter \div 1000) % 256, 0, 0 >>

\* Tag lengths decipher.setAuthTag accepts for GCM when createDecipheriv was
\* given no authTagLength option (Node >= 16, package.json engines).
AuthTagLengths == {4, 8, 12, 13, 14, 15, 16}

NoResult == [kind |-> "none"]
Returned(v) == [kind |-> "ok", value |-> v]
\* new ApiError(StatusCodes.INTERNAL_SERVER_ERROR, message)
ApiError(message) == [kind |-> "error", status |-> 500, message |-> message]

\* Mutant: the fields are concatenated IV first, salt second.
EncryptEnvelope_IvFirst(data, sec, iv, salt) ==
  LET key == PBKDF2(sec, salt, iterations, keyLength)
      encrypted == GcmEncryptBytes(key, iv, Utf8Encode(data))
  IN HexEncode(iv \o salt \o GcmTag(key, iv, encrypted) \o encrypted)

\* EncryptionService.encrypt(data), with the random bytes it draws.
EncryptEnvelope(data, sec, iv, salt) ==
  LET key == PBKDF2(sec, salt, iterations, keyLength)
      plain == Utf8Encode(data)
      encrypted == HexEncode(GcmEncryptBytes(key, iv, plain))
      tag == GcmTag(key, iv, HexDecode(encrypted))
  IN HexEncode(salt \o iv \o tag \o HexDecode(encrypted))

\* Mutant: the fourth slice starts where the tag starts.
EnvelopeParts_TagInCiphertext(encryptedData) ==
  LET inputBuffer == HexDecode(encryptedData)
  IN [salt |-> Slice(inputBuffer, 0, saltLength),
      iv |-> Slice(inputBuffer, saltLength, saltLength + ivLength),
      tag |-> Slice(inputBuffer, saltLength + ivLength,
                    saltLength + ivLength + tagLength),
      encrypted |-> SliceFrom(inputBuffer, saltLength + ivLength)]

\* decrypt, lines 71-80: the envelope decoded and cut at the fixed offsets
\* saltLength, saltLength + ivLength and saltLength + ivLength + tagLength.
EnvelopeParts(encryptedData) ==
  LET inputBuffer == HexDecode(encryptedData)
  IN [salt |-> Slice(inputBuffer, 0, saltLength),
      iv |-> Slice(inputBuffer, saltLength, saltLength + ivLength),
      tag |-> Slice(inputBuffer, saltLength + ivLength,
                    saltLength + ivLength + tagLength),
      encrypted |-> SliceFrom(inputBuffer, saltLength + ivLength + tagLength)]

\* Mutant: the tag is never set nor checked (decipher.final is not called).
DecryptEnvelope_NoTagCheck(encryptedData, sec) ==
  LET inputBuffer == HexDecode(encryptedData)
      salt == Slice(inputBuffer, 0, saltLength)
      iv == Slice(inputBuffer, saltLength, saltLength + ivLength)
      encrypted == SliceFrom(inputBuffer, saltLength + ivLength + tagLength)
      key == PBKDF2(sec, salt, iterations, keyLength)
  IN IF Len(iv) = 0 THEN ApiError("Failed to decrypt data")
     ELSE Returned(Utf8Decode(GcmDecryptBytes(key, iv, encrypted)))

\* Mutant: a tag of a length setAuthTag refuses is reported with a message
\* of its own.
DecryptEnvelope_TagLengthMessage(encryptedData, sec) ==
  LET parts == EnvelopeParts(encryptedData)
      key == PBKDF2(sec, parts.salt, iterations, keyLength)
  IN IF Len(parts.iv) = 0 THEN ApiError("Failed to decrypt data")
     ELSE IF Len(parts.tag) \notin AuthTagLengths
       THEN ApiError("Invalid authentication tag length")
     ELSE IF parts.tag # SubSeq(GcmTag(key, parts.iv, parts.encrypted), 1, Len(parts.tag))
       THEN ApiError("Failed to decrypt data")
     ELSE Returned(Utf8Decode(GcmDecryptBytes(key, parts.iv, parts.encrypted)))

\* EncryptionService.decrypt(encryptedData): every exception of the body is
\* caught and replaced by the one ApiError.
DecryptEnvelope(encryptedData, sec) ==
  LET parts == EnvelopeParts(encryptedData)
      salt == parts.salt
      iv == parts.iv
      tag == parts.tag
      encrypted == parts.encrypted
      key == PBKDF2(sec, salt, iterations, keyLength)
      cipher == HexDecode(HexEncode(encrypted))
  IN IF Len(iv) = 0                       \* createDecipheriv: invalid IV
       THEN ApiError("Failed to decrypt data")
     ELSE IF Len(tag) \notin AuthTagLengths   \* setAuthTag throws
       THEN ApiError("Failed to decrypt data")
     ELSE IF tag # SubSeq(GcmTag(key, iv, cipher), 1, Len(tag))  \* final() throws
       THEN ApiError("Failed to decrypt data")
     ELSE Returned(Utf8Decode(GcmDecryptBytes(key, iv, cipher)))

\* EncryptionService.hash(data), with the salt it draws (lines 112-131).
HashResult(data, salt) ==
  LET hash == DerivedBytes(PBKDF2(data, salt, iterations, keyLength))
  IN HexEncode(salt \o hash)

\* Mutant: the hash is recomputed without the stored salt.
VerifyHashResult_NoSalt(data, storedHash) ==
  LET inputBuffer == HexDecode(storedHash)
      originalHash == SliceFrom(inputBuffer, saltLength)
      hash == DerivedBytes(PBKDF2(data, <<>>, iterations, keyLength))
  IN IF Len(hash) # Len(originalHash) THEN ApiError("Failed to verify hash")
     ELSE Returned(hash = originalHash)

\* Mutant: buffers of different lengths compare as unequal.
VerifyHashResult_FalseOnLength(data, storedHash) ==
  LET inputBuffer == HexDecode(storedHash)
      salt == Slice(inputBuffer, 0, saltLength)
      originalHash == SliceFrom(inputBuffer, saltLength)
      hash == DerivedBytes(PBKDF2(data, salt, iterations, keyLength))
  IN Returned(hash = originalHash)

\* EncryptionService.verifyHash(data, storedHash) (lines 136-158):
\* crypto.timingSafeEqual throws when the two buffers differ in length, and
\* every exception is replaced by the one ApiError.
VerifyHashResult(data, storedHash) ==
  LET inputBuffer == HexDecode(storedHash)
      salt == Slice(inputBuffer, 0, saltLength)
      originalHash == SliceFrom(inputBuffer, saltLength)
      hash == DerivedBytes(PBKDF2(data, salt, iterations, keyLength))
  IN IF Len(hash) # Len(originalHash) THEN ApiError("Failed to verify hash")
     ELSE Returned(hash = originalHash)

\* EncryptionService.verifyPassword(password, hashedPassword) (lines
\* 194-196) delegates to verifyHash.
VerifyPasswordResult(password, hashedPassword) ==
  VerifyHashResult(password, hashedPassword)

\* Characters a byte of the envelope string can be replaced by: the next hex
\* digit, the same digit in the other letter case, a character that is no
\* hex digit.
Replacements(c) ==
  LET v == HexValue(c)
  IN {HexDigits[((v + 1) % 16) + 1], "g"}
     \cup (IF v >= 10 THEN {HexUpper[v + 1]} ELSE {})

\* The string a decrypt call is given.
InputOf(call, env) ==
  IF call.kind = "tampered" THEN [env EXCEPT ![call.pos] = call.ch] ELSE env

----------------------------------------------------------------------------
(* Asymmetric component: src/components/auth/security/EncryptionService.ts *)
(* OpenPGP.js (the v5 API the code calls) is modelled by what its calls    *)
(* return: keys and messages are records that stand for their armored or   *)
(* binary serialisation.                                                   *)

\* JavaScript argument values.
Undefined == [kind |-> "undefined"]
Str(t) == [kind |-> "string", text |-> t]
Garbage == [kind |-> "garbage"]          \* a non-empty string that parses as nothing
\* if (x) ... : undefined and the empty string are falsy.
Truthy(v) == ~(v.kind = "undefined" \/ (v.kind = "string" /\ v.text = ""))

Emails == {"alice@example.com", "bob@example.com"}
\* The passphrase each identity protects its key with (never empty: the
\* precondition of generateKeyPair).
PassphraseOf(email) == IF email = "alice@example.com" THEN "pwA" ELSE "pwB"
Passphrases == {PassphraseOf(e) : e \in Emails}

\* The armored keys openpgp.generateKey returns for its k-th key.
PublicKeyOf(k, email) == [kind |-> "pub", id |-> k, userIDs |-> <<[email |-> email]>>]
PrivateKeyOf(k, email, passphrase) ==
  [kind |-> "priv", id |-> k, userIDs |-> <<[email |-> email]>>, lock |-> passphrase]

\* The KeyPair object generateKeyPair builds (lines 33-38).
KeyPairOf(k, email, passphrase, at) ==
  [publicKey |-> PublicKeyOf(k, email),
   privateKey |-> PrivateKeyOf(k, email, passphrase),
   email |-> email,
   createdAt |-> at]

NoEntry == [kind |-> "absent"]

\* openpgp.readKey({ armoredKey }): throws unless the text is an armored key.
ReadKeyOk(armored) == armored.kind \in {"pub", "priv"}
\* openpgp.readPrivateKey({ armoredKey }): throws unless it is a private key.
ReadPrivateKeyOk(armored) == armored.kind = "priv"
\* openpgp.decryptKey({ privateKey, passphrase }): throws on a wrong
\* passphrase (and on a key that is not locked).
DecryptKeyOk(priv, passphrase) ==
  /\ priv.lock # ""
  /\ passphrase.kind = "string"
  /\ passphrase.text = priv.lock

\* util.canonicalizeEOL: every LF that no CR precedes becomes CR LF.  A long
\* stretch is converted in two parts.
RECURSIVE CanonFrom(_, _)
CanonFrom(b, i) ==
  IF i > Len(b) THEN <<>>
  ELSE IF Len(b) - i >= 8
    THEN LET mid == (i + Len(b)) \div 2
         IN CanonFrom(SubSeq(b, 1, mid), i) \o CanonFrom(b, mid + 1)
  ELSE IF b[i] = 10 /\ (i = 1 \/ b[i - 1] # 13)
    THEN <<13, 10>> \o CanonFrom(b, i + 1)
  ELSE <<b[i]>> \o CanonFrom(b, i + 1)
CanonicalizeEOL(b) == CanonFrom(b, 1)

\* util.nativeEOL: every CR LF becomes LF.  A long stretch is converted in
\* two parts, cut where no CR LF pair is split.
RECURSIVE NativeFrom(_, _)
NativeFrom(b, i) ==
  IF i > Len(b) THEN <<>>
  ELSE IF Len(b) - i >= 8
    THEN LET mid == (i + Len(b)) \div 2
             cut == IF b[mid] = 13 /\ b[mid + 1] = 10 THEN mid + 1 ELSE mid
         IN NativeFrom(SubSeq(b, 1, cut), i) \o NativeFrom(b, cut + 1)
  ELSE IF b[i] = 13 /\ i < Len(b) /\ b[i + 1] = 10
    THEN NativeFrom(b, i + 1)
  ELSE <<b[i]>> \o NativeFrom(b, i + 1)
NativeEOL(b) == NativeFrom(b, 1)

\* util.decodeUTF8 (a TextDecoder): UTF-8 decoding that drops a leading
\* byte order mark.
ByteOrderMark == 65279
TextDecode(b) ==
  LET t == Utf8Decode(b)
  IN IF t # <<>> /\ t[1] = ByteOrderMark THEN Tail(t) ELSE t

\* openpgp.createMessage({ text }): the literal data packet of a text.
TextLiteral(text) ==
  [format |-> "utf8", data |-> CanonicalizeEOL(Utf8Encode(text)), filename |-> <<>>]
\* openpgp.createMessage({ binary, filename }).
BinaryLiteral(bytes, filename) ==
  [format |-> "binary", data |-> bytes, filename |-> filename]

\* The four date bytes of a literal data packet (one sample time).
LiteralDate == <<0, 0, 0, 1>>

\* The bytes of a literal data packet: the format octet ("b" or "u"), ONE
\* octet holding the length of the file name, the file name in UTF-8, the
\* date, the data.
LiteralWrite(literal) ==
  LET filename == Utf8Encode(literal.filename)
  IN <<IF literal.format = "binary" THEN 98 ELSE 117, Len(filename) % 256>>
     \o filename \o LiteralDate \o literal.data

\* The literal data packet read back from its bytes: the file name is as
\* many bytes as the length octet says, decoded from UTF-8; the data is what
\* follows the date.
LiteralRead(b) ==
  [format |-> IF b[1] = 98 THEN "binary" ELSE "utf8",
   filename |-> TextDecode(SubSeq(b, 3, 2 + b[2])),
   data |-> SubSeq(b, 3 + b[2] + 4, Len(b))]

\* The literal data packet the receiver of message m finds in it.
Packet(m) == LiteralRead(LiteralWrite(m.literal))

\* openpgp.encrypt(options): the message, encrypted for the key in
\* encryptionKeys and signed by the key in signingKeys (0: unsigned).
PgpEncrypt(literal, recipientId, signerId, armored) ==
  [kind |-> "message", armored |-> armored, recipient |-> recipientId,
   signer |-> signerId, literal |-> literal, intact |-> TRUE]

\* A message whose encrypted body was altered in transit: it still parses,
\* its integrity check fails.
Altered(msg) == [msg EXCEPT !.intact = FALSE]

\* openpgp.readMessage({ armoredMessage }) / ({ binaryMessage }).
ReadMessageOk(m, armored) == m.kind = "message" /\ m.armored = armored

\* openpgp.decrypt(options) throws unless the decryption key is the one the
\* session key was encrypted for and the integrity check passes.
PgpDecryptOk(m, keyId) == m.recipient = keyId /\ m.intact

\* The data openpgp.decrypt returns: text (format 'utf8', the default) or
\* bytes (format 'binary').
PgpData(m, format) ==
  IF format = "binary" THEN Packet(m).data
  ELSE TextDecode(NativeEOL(Packet(m).data))

\* The signatures array openpgp.decrypt returns: one entry per signature of
\* the message.  verifies: whether the entry's `verified` promise resolves
\* (the signing key is among verificationKeys) or rejects.
PgpSignatures(m, verificationKey) ==
  IF m.signer = 0 THEN <<>>
  ELSE <<[keyID |-> m.signer,
          verifies |-> verificationKey.kind # "undefined"
                       /\ verificationKey.id = m.signer]>>

Threw(message) == [kind |-> "error", message |-> message]

\* The signing branch shared by encryptMessage (lines 65-72) and encryptFile
\* (lines 164-170): "skip", "fail" or the id of the unlocked signing key.
SigningKey(senderPrivateKey, passphrase) ==
  IF ~(Truthy(senderPrivateKey) /\ Truthy(passphrase)) THEN [kind |-> "skip"]
  ELSE IF ~ReadPrivateKeyOk(senderPrivateKey) THEN [kind |-> "fail"]
  ELSE IF ~DecryptKeyOk(senderPrivateKey, passphrase) THEN [kind |-> "fail"]
  ELSE [kind |-> "key", id |-> senderPrivateKey.id]

\* EncryptionService.encryptMessage (lines 51-80).
EncryptMessageResult(message, recipientPublicKey, senderPrivateKey, passphrase) ==
  LET signing == SigningKey(senderPrivateKey, passphrase)
  IN IF ~ReadKeyOk(recipientPublicKey) THEN Threw("Kunne ikke kryptere beskeden")
     ELSE IF signing.kind = "fail" THEN Threw("Kunne ikke kryptere beskeden")
     ELSE Returned(PgpEncrypt(TextLiteral(message), recipientPublicKey.id,
                              IF signing.kind = "key" THEN signing.id ELSE 0, TRUE))

\* EncryptionService.encryptFile (lines 140-182).
EncryptFileResult(file, recipientPublicKey, senderPrivateKey, passphrase) ==
  LET signing == SigningKey(senderPrivateKey, passphrase)
  IN IF ~ReadKeyOk(recipientPublicKey) THEN Threw("Kunne ikke kryptere filen")
     ELSE IF signing.kind = "fail" THEN Threw("Kunne ikke kryptere filen")
     ELSE Returned(
            [encryptedData |->
               PgpEncrypt(BinaryLiteral(file.bytes, file.name), recipientPublicKey.id,
                          IF signing.kind = "key" THEN signing.id ELSE 0, FALSE),
             filename |-> file.name \o <<46, 112, 103, 112>>])   \* + ".pgp"

\* Mutant: verified is set as soon as the message carries a signature, the
\* outcome of signatures[0].verified is not awaited.
VerifiedFlag_AnySignature(signatures) == Len(signatures) > 0

\* Lines 116-125 and 219-227: verified is set once signatures[0].verified
\* resolves; a rejection is caught and leaves it false.
VerifiedFlag(signatures) ==
  IF Len(signatures) > 0 THEN signatures[1].verifies ELSE FALSE

\* Mutant: the message is decrypted with format 'binary', as decryptFile does.
DecryptMessageResult_BinaryFormat(encryptedMessage, privateKey, passphrase, senderPublicKey) ==
  IF ~ReadPrivateKeyOk(privateKey) \/ ~DecryptKeyOk(privateKey, passphrase)
     \/ ~ReadMessageOk(encryptedMessage, TRUE)
     \/ (Truthy(senderPublicKey) /\ ~ReadKeyOk(senderPublicKey))
     \/ ~PgpDecryptOk(encryptedMessage, privateKey.id)
    THEN Threw("Kunne ikke dekryptere beskeden")
  ELSE Returned(
         [message |-> PgpData(encryptedMessage, "binary"),
          verified |-> VerifiedFlag(PgpSignatures(encryptedMessage,
                         IF Truthy(senderPublicKey) THEN senderPublicKey
                                                    ELSE Undefined))])

\* Mutant: the sender's public key is never handed to openpgp.decrypt.
DecryptMessageResult_NoVerificationKeys(encryptedMessage, privateKey, passphrase, senderPublicKey) ==
  IF ~ReadPrivateKeyOk(privateKey) \/ ~DecryptKeyOk(privateKey, passphrase)
     \/ ~ReadMessageOk(encryptedMessage, TRUE)
     \/ ~PgpDecryptOk(encryptedMessage, privateKey.id)
    THEN Threw("Kunne ikke dekryptere beskeden")
  ELSE Returned(
         [message |-> PgpData(encryptedMessage, "utf8"),
          verified |-> VerifiedFlag(PgpSignatures(encryptedMessage, Undefined))])

\* Mutant: the private key is used as read, without openpgp.decryptKey, so
\* the passphrase is never checked.
DecryptMessageResult_NoUnlock(encryptedMessage, privateKey, passphrase, senderPublicKey) ==
  IF ~ReadPrivateKeyOk(privateKey)
     \/ ~ReadMessageOk(encryptedMessage, TRUE)
     \/ (Truthy(senderPublicKey) /\ ~ReadKeyOk(senderPublicKey))
     \/ ~PgpDecryptOk(encryptedMessage, privateKey.id)
    THEN Threw("Kunne ikke dekryptere beskeden")
  ELSE Returned(
         [message |-> PgpData(encryptedMessage, "utf8"),
          verified |-> VerifiedFlag(PgpSignatures(encryptedMessage,
                         IF Truthy(senderPublicKey) THEN senderPublicKey
                                                    ELSE Undefined))])

\* EncryptionService.decryptMessage (lines 85-135).
DecryptMessageResult(encryptedMessage, privateKey, passphrase, senderPublicKey) ==
  IF ~ReadPrivateKeyOk(privateKey) THEN Threw("Kunne ikke dekryptere beskeden")
  ELSE IF ~DecryptKeyOk(privateKey, passphrase)
    THEN Threw("Kunne ikke dekryptere beskeden")
  ELSE IF ~ReadMessageOk(encryptedMessage, TRUE)
    THEN Threw("Kunne ikke dekryptere beskeden")
  ELSE IF Truthy(senderPublicKey) /\ ~ReadKeyOk(senderPublicKey)
    THEN Threw("Kunne ikke dekryptere beskeden")
  ELSE IF ~PgpDecryptOk(encryptedMessage, privateKey.id)
    THEN Threw("Kunne ikke dekryptere beskeden")
  ELSE Returned(
         [message |-> PgpData(encryptedMessage, "utf8"),
          verified |-> VerifiedFlag(PgpSignatures(encryptedMessage,
                         IF Truthy(senderPublicKey) THEN senderPublicKey
                                                    ELSE Undefined))])

\* 'decrypted_file'
DecryptedFile == <<100, 101, 99, 114, 121, 112, 116, 101, 100, 95, 102, 105, 108, 101>>

\* Mutant: the file is decrypted with the default format, as a text.
DecryptFileResult_TextFormat(encryptedData, privateKey, passphrase, senderPublicKey) ==
  IF ~ReadPrivateKeyOk(privateKey) \/ ~DecryptKeyOk(privateKey, passphrase)
     \/ ~ReadMessageOk(encryptedData, FALSE)
     \/ (Truthy(senderPublicKey) /\ ~ReadKeyOk(senderPublicKey))
     \/ ~PgpDecryptOk(encryptedData, privateKey.id)
    THEN Threw("Kunne ikke dekryptere filen")
  ELSE Returned(
         [decryptedData |-> PgpData(encryptedData, "utf8"),
          filename |-> IF Packet(encryptedData).filename # <<>>
                         THEN Packet(encryptedData).filename
                         ELSE DecryptedFile,
          verified |-> VerifiedFlag(PgpSignatures(encryptedData,
                         IF Truthy(senderPublicKey) THEN senderPublicKey
                                                    ELSE Undefined))])

\* EncryptionService.decryptFile (lines 187-238).
DecryptFileResult(encryptedData, privateKey, passphrase, senderPublicKey) ==
  IF ~ReadPrivateKeyOk(privateKey) THEN Threw("Kunne ikke dekryptere filen")
  ELSE IF ~DecryptKeyOk(privateKey, passphrase)
    THEN Threw("Kunne ikke dekryptere filen")
  ELSE IF ~ReadMessageOk(encryptedData, FALSE)
    THEN Threw("Kunne ikke dekryptere filen")
  ELSE IF Truthy(senderPublicKey) /\ ~ReadKeyOk(senderPublicKey)
    THEN Threw("Kunne ikke dekryptere filen")
  ELSE IF ~PgpDecryptOk(encryptedData, privateKey.id)
    THEN Threw("Kunne ikke dekryptere filen")
  ELSE Returned(
         [decryptedData |-> PgpData(encryptedData, "binary"),
          filename |-> IF Packet(encryptedData).filename # <<>>
                         THEN Packet(encryptedData).filename
                         ELSE DecryptedFile,
          verified |-> VerifiedFlag(PgpSignatures(encryptedData,
                         IF Truthy(senderPublicKey) THEN senderPublicKey
                                                    ELSE Undefined))])


\* JavaScript null.
Null == [kind |-> "null"]

\* Keys that generateKeyPair did not make: a public key with no user ID, one
\* whose user ID is a name only, one with a name and an address, and a
\* private key that no passphrase protects.
ForeignKeys ==
  { [kind |-> "pub", id |-> 101, userIDs |-> <<>>],
    [kind |-> "pub", id |-> 102, userIDs |-> <<[name |-> "Carol"]>>],
    [kind |-> "pub", id |-> 103,
     userIDs |-> <<[name |-> "Dave", email |-> "dave@example.com"]>>],
    [kind |-> "priv", id |-> 104,
     userIDs |-> <<[email |-> "erin@example.com"]>>, lock |-> ""] }

\* The user ID string OpenPGP.js builds from { name, email }, as the pieces
\* it is made of: the name, a space, the address in angle brackets.
FormatUserID(u) ==
  LET name == IF "name" \in DOMAIN u THEN <<u.name>> ELSE <<>>
      address == IF "email" \in DOMAIN u THEN <<"<", u.email, ">">> ELSE <<>>
  IN IF name # <<>> /\ address # <<>> THEN name \o <<" ">> \o address
     ELSE name \o address

\* key.getUserIDs()
GetUserIDs(key) == [i \in 1..Len(key.userIDs) |-> FormatUserID(key.userIDs[i])]

\* userId.match(/<(.+)>/)?.[1]: what stands between the first "<" that a
\* later ">" closes and the last ">", <<>> when nothing matches.
AngleMatch(t) ==
  LET opens == {i \in 1..Len(t) : t[i] = "<" /\ \E j \in (i + 2)..Len(t) : t[j] = ">"}
  IN IF opens = {} THEN <<>>
     ELSE LET i == CHOOSE x \in opens : \A y \in opens : x <= y
              closes == {j \in (i + 2)..Len(t) : t[j] = ">"}
              j == CHOOSE x \in closes : \A y \in closes : y <= x
          IN SubSeq(t, i + 1, j - 1)

\* EncryptionService.validatePublicKey (lines 243-250).
ValidatePublicKeyResult(publicKey) == Returned(ReadKeyOk(publicKey))

\* EncryptionService.validatePrivateKey (lines 255-265).
ValidatePrivateKeyResult(privateKey, passphrase) ==
  Returned(ReadPrivateKeyOk(privateKey) /\ DecryptKeyOk(privateKey, passphrase))

\* Mutant: the key is read outside the try block.
GetKeyEmailResult_NoCatch(publicKey) ==
  IF ~ReadKeyOk(publicKey) THEN Threw("Fejl ved l\\aesning af n\\ogle")
  ELSE LET userIds == GetUserIDs(publicKey)
       IN IF Len(userIds) > 0 /\ AngleMatch(userIds[1]) # <<>>
            THEN Returned([kind |-> "string", pieces |-> AngleMatch(userIds[1])])
          ELSE Returned(Null)

\* EncryptionService.getKeyEmail (lines 270-283).
GetKeyEmailResult(publicKey) ==
  IF ~ReadKeyOk(publicKey) THEN Returned(Null)
  ELSE LET userIds == GetUserIDs(publicKey)
       IN IF Len(userIds) > 0
            THEN LET email == AngleMatch(userIds[1])
                 IN IF email # <<>>
                      THEN Returned([kind |-> "string", pieces |-> email])
                    ELSE Returned(Null)
          ELSE Returned(Null)

\* EncryptionService.exportPublicKey (lines 288-296): the key that was read,
\* armored again.
ExportPublicKeyResult(publicKey) ==
  IF ~ReadKeyOk(publicKey) THEN Threw("Kunne ikke eksportere offentlig n\\ogle")
  ELSE Returned(publicKey)

\* Plaintexts of the tampering scenarios: "", "a", U+1F600.
TamperPlaintexts == {<<>>, <<97>>, <<55357, 56832>>}


\* encrypt(data) is called.
Encrypt(data) ==
  /\ origin.kind = "none"
  /\ \E iv \in RandomBytes(ivLength), salt \in RandomBytes(saltLength) :
       /\ envelope' = EncryptEnvelope(data, secret, iv, salt)
       /\ origin' = [kind |-> "encrypt", data |-> data, secret |-> secret,
                     iv |-> iv, salt |-> salt]
  /\ UNCHANGED <<secret, symCall, symResult, earlier, keyVars, msgVars, srvVars>>

\* The process is restarted with another secret configured, between the
\* encrypt call and the decrypt call.
Reconfigure(s) ==
  /\ symCall.kind = "none"
  /\ s # secret
  /\ secret' = s
  /\ UNCHANGED <<envelope, origin, symCall, symResult, earlier, keyVars, msgVars, srvVars>>

\* decrypt is called with the envelope as encrypt returned it.
DecryptIntact ==
  /\ origin.kind = "encrypt"
  /\ symCall.kind = "none"
  /\ symCall' = [kind |-> "intact"]
  /\ symResult' = DecryptEnvelope(envelope, secret)
  /\ UNCHANGED <<secret, envelope, origin, earlier, keyVars, msgVars, srvVars>>

\* decrypt is called with the envelope after one of its bytes was changed.
DecryptTampered ==
  /\ origin.kind = "encrypt"
  /\ symCall.kind = "none"
  /\ \E pos \in 1..Len(envelope) : \E ch \in Replacements(envelope[pos]) :
       /\ symCall' = [kind |-> "tampered", pos |-> pos, ch |-> ch]
       /\ symResult' = DecryptEnvelope([envelope EXCEPT ![pos] = ch], secret)
  /\ UNCHANGED <<secret, envelope, origin, earlier, keyVars, msgVars, srvVars>>

\* Strings that hold fewer bytes than salt, IV and tag take: every proper
\* prefix of the envelope that is shorter than the three fields, the empty
\* string, a string of no hex digit and a single digit.
ShortInputs(env) ==
  {SubSeq(env, 1, n) : n \in 0..Min(Len(env), 2 * (saltLength + ivLength + tagLength) - 1)}
    \cup {<<>>, <<"z", "z">>, <<"a">>}

\* decrypt is called with a string too short to hold salt, IV and tag.
DecryptShort ==
  /\ symCall.kind = "none"
  /\ \E input \in ShortInputs(envelope) :
       /\ symCall' = [kind |-> "short", input |-> input]
       /\ symResult' = DecryptEnvelope(input, secret)
  /\ UNCHANGED <<secret, envelope, origin, earlier, keyVars, msgVars, srvVars>>

\* The values crypto.randomBytes(n) returned to the encrypt calls made so
\* far.
Drawn(n) ==
  LET field == IF n = ivLength THEN "iv" ELSE "salt"
  IN {earlier[i][field] : i \in 1..Len(earlier)} \cup
     (IF origin.kind = "encrypt" THEN {origin[field]} ELSE {})

\* What is kept of an encrypt call when the next one is made.
Kept ==
  [data |-> origin.data, secret |-> origin.secret, iv |-> origin.iv,
   salt |-> origin.salt, envelope |-> envelope]

\* Mutant: the IV is drawn once and kept for the calls that follow.
EncryptAgain_SameIv(data) ==
  /\ origin.kind = "encrypt"
  /\ symCall.kind = "none"
  /\ \E salt \in RandomBytes(saltLength) \ Drawn(saltLength) :
       /\ envelope' = EncryptEnvelope(data, secret, origin.iv, salt)
       /\ origin' = [kind |-> "encrypt", data |-> data, secret |-> secret,
                     iv |-> origin.iv, salt |-> salt]
  /\ earlier' = Append(earlier, Kept)
  /\ UNCHANGED <<secret, symCall, symResult, keyVars, msgVars, srvVars>>

\* encrypt(data) is called once more.  crypto.randomBytes is a
\* cryptographically strong generator: it is taken to return no value twice.
EncryptAgain(data) ==
  /\ origin.kind = "encrypt"
  /\ symCall.kind = "none"
  /\ \E iv \in RandomBytes(ivLength) \ Drawn(ivLength),
        salt \in RandomBytes(saltLength) \ Drawn(saltLength) :
       /\ envelope' = EncryptEnvelope(data, secret, iv, salt)
       /\ origin' = [kind |-> "encrypt", data |-> data, secret |-> secret,
                     iv |-> iv, salt |-> salt]
  /\ earlier' = Append(earlier, Kept)
  /\ UNCHANGED <<secret, symCall, symResult, keyVars, msgVars, srvVars>>

\* decrypt is called with the envelope an earlier encrypt call returned.
DecryptEarlier ==
  /\ symCall.kind = "none"
  /\ \E i \in 1..Len(earlier) :
       /\ symCall' = [kind |-> "earlier", index |-> i]
       /\ symResult' = DecryptEnvelope(earlier[i].envelope, secret)
  /\ UNCHANGED <<secret, envelope, origin, earlier, keyVars, msgVars, srvVars>>

\* The caller has its answer and drops envelope and result.
Finish ==
  /\ symCall.kind # "none"
  /\ envelope' = <<>>
  /\ origin' = [kind |-> "none"]
  /\ symCall' = [kind |-> "none"]
  /\ symResult' = NoResult
  /\ earlier' = <<>>
  /\ UNCHANGED <<secret, keyVars, msgVars, srvVars>>

\* Code units the hashed strings are made of: NUL, "a", a high and a low
\* surrogate, U+FFFD.
HashAlphabet == {0, 97, 55357, 56832, 65533}
HashInputs == SeqsUpTo(HashAlphabet, MaxLen)

\* hash(data): the returned string is stored.
Hash(data) ==
  /\ origin.kind = "none"
  /\ \E salt \in RandomBytes(saltLength) :
       /\ envelope' = HashResult(data, salt)
       /\ origin' = [kind |-> "hash", data |-> data, salt |-> salt]
  /\ UNCHANGED <<secret, symCall, symResult, earlier, keyVars, msgVars, srvVars>>

\* verifyHash(data, storedHash) on the stored string.
VerifyHash(data) ==
  /\ origin.kind = "hash"
  /\ symCall.kind = "none"
  /\ symCall' = [kind |-> "verifyHash", data |-> data]
  /\ symResult' = VerifyHashResult(data, envelope)
  /\ UNCHANGED <<secret, envelope, origin, earlier, keyVars, msgVars, srvVars>>

\* Strings verified against stored values: "" and "a".
StoredData == {<<>>, <<97>>}

\* Stored values verifyHash can be handed: the string hash returned, each of
\* its prefixes (the empty string among them), the string with one more
\* byte, with a trailing and with a leading pair that is no hex.
StoredVariants(stored) ==
  {SubSeq(stored, 1, n) : n \in 0..Len(stored)}
    \cup {stored \o <<"0", "0">>, stored \o <<"z", "z">>, <<"z", "z">> \o stored}

\* verifyHash(data, storedHash) with a stored value of any shape.
VerifyStored(data) ==
  /\ origin.kind = "hash"
  /\ symCall.kind = "none"
  /\ \E storedHash \in StoredVariants(envelope) :
       /\ symCall' = [kind |-> "verifyStored", data |-> data, stored |-> storedHash]
       /\ symResult' = VerifyHashResult(data, storedHash)
  /\ UNCHANGED <<secret, envelope, origin, earlier, keyVars, msgVars, srvVars>>

\* verifyPassword(password, hashedPassword) with a stored value of any shape.
VerifyPassword(password) ==
  /\ origin.kind = "hash"
  /\ symCall.kind = "none"
  /\ \E hashedPassword \in StoredVariants(envelope) :
       /\ symCall' = [kind |-> "verifyPassword", data |-> password,
                      stored |-> hashedPassword]
       /\ symResult' = VerifyPasswordResult(password, hashedPassword)
  /\ UNCHANGED <<secret, envelope, origin, earlier, keyVars, msgVars, srvVars>>

----------------------------------------------------------------------------
(* State and operations of the asymmetric component                        *)

\* Texts given to encryptMessage: "", "a", LF, CR, CR LF, "a" LF, a byte
\* order mark before "a", an unpaired surrogate, U+1F600.
MsgPlaintexts ==
  {<<>>, <<97>>, <<10>>, <<13>>, <<13, 10>>, <<97, 10>>, <<65279, 97>>,
   <<55357>>, <<55357, 56832>>}

\* Files given to encryptFile: bytes and name.  The names: "a", the empty
\* name, an unpaired surrogate, and the euro sign 86 times (258 bytes in
\* UTF-8, more than one octet can count).
FileSamples ==
  { [bytes |-> <<13, 10, 255>>, name |-> <<97>>],
    [bytes |-> <<>>, name |-> <<>>],
    [bytes |-> <<1>>, name |-> <<55357>>],
    [bytes |-> <<1>>, name |-> [i \in 1..86 |-> 8364]] }


\* generateKeyPair(email, passphrase) is called and runs up to its await.
GenerateKeyPairCall(email, passphrase) ==
  /\ calls < MaxKeys
  /\ calls' = calls + 1
  /\ pending' = pending \cup {[call |-> calls + 1, email |-> email,
                                passphrase |-> passphrase]}
  /\ lastOp' = [op |-> "call", call |-> calls + 1]
  /\ UNCHANGED <<keyCache, issued, keyResult, order, clearedAt, symVars, msgVars, srvVars>>

\* Mutant: an identity that has an entry keeps it (set only if absent).
GenerateKeyPairResolve_KeepOld(c) ==
  /\ c \in pending
  /\ LET keyPair == KeyPairOf(Len(issued) + 1, c.email, c.passphrase, Len(issued) + 1)
     IN /\ keyCache' = IF keyCache[c.email] = NoEntry
                         THEN [keyCache EXCEPT ![c.email] = keyPair]
                         ELSE keyCache
        /\ issued' = Append(issued, keyPair)
        /\ keyResult' = Returned(keyPair)
  /\ pending' = pending \ {c}
  /\ order' = Append(order, c.call)
  /\ lastOp' = [op |-> "resolve", call |-> c.call]
  /\ UNCHANGED <<calls, clearedAt, symVars, msgVars, srvVars>>

\* Mutant: a call writes the cache only if no call started after it has
\* already written the entry of its identity (first started, first served).
GenerateKeyPairResolve_StartOrder(c) ==
  /\ c \in pending
  /\ LET keyPair == KeyPairOf(Len(issued) + 1, c.email, c.passphrase, Len(issued) + 1)
     IN /\ keyCache' = IF \E i \in 1..Len(order) :
                               order[i] > c.call /\ issued[i].email = c.email
                         THEN keyCache
                         ELSE [keyCache EXCEPT ![c.email] = keyPair]
        /\ issued' = Append(issued, keyPair)
        /\ keyResult' = Returned(keyPair)
  /\ pending' = pending \ {c}
  /\ order' = Append(order, c.call)
  /\ lastOp' = [op |-> "resolve", call |-> c.call]
  /\ UNCHANGED <<calls, clearedAt, symVars, msgVars, srvVars>>

\* Mutant: a call that was waiting when the cache was cleared returns its
\* pair without caching it.
GenerateKeyPairResolve_DropIfCleared(c) ==
  /\ c \in pending
  /\ LET keyPair == KeyPairOf(Len(issued) + 1, c.email, c.passphrase, Len(issued) + 1)
     IN /\ keyCache' = IF c.call <= clearedAt
                         THEN keyCache
                         ELSE [keyCache EXCEPT ![c.email] = keyPair]
        /\ issued' = Append(issued, keyPair)
        /\ keyResult' = Returned(keyPair)
  /\ pending' = pending \ {c}
  /\ order' = Append(order, c.call)
  /\ lastOp' = [op |-> "resolve", call |-> c.call]
  /\ UNCHANGED <<calls, clearedAt, symVars, msgVars, srvVars>>

\* openpgp.generateKey resolves for call c: lines 33-41 run.
GenerateKeyPairResolve(c) ==
  /\ c \in pending
  /\ LET keyPair == KeyPairOf(Len(issued) + 1, c.email, c.passphrase, Len(issued) + 1)
     IN /\ keyCache' = [keyCache EXCEPT ![c.email] = keyPair]
        /\ issued' = Append(issued, keyPair)
        /\ keyResult' = Returned(keyPair)
  /\ pending' = pending \ {c}
  /\ order' = Append(order, c.call)
  /\ lastOp' = [op |-> "resolve", call |-> c.call]
  /\ UNCHANGED <<calls, clearedAt, symVars, msgVars, srvVars>>

\* Mutant: a failed generation removes the entry of its identity.
GenerateKeyPairReject_Evict(c) ==
  /\ c \in pending
  /\ keyResult' = Threw("Kunne ikke generere n\\oglepar")
  /\ keyCache' = [keyCache EXCEPT ![c.email] = NoEntry]
  /\ pending' = pending \ {c}
  /\ lastOp' = [op |-> "reject", call |-> c.call]
  /\ UNCHANGED <<calls, issued, order, clearedAt, symVars, msgVars, srvVars>>

\* openpgp.generateKey rejects for call c: lines 42-45 run.
GenerateKeyPairReject(c) ==
  /\ c \in pending
  /\ keyResult' = Threw("Kunne ikke generere n\\oglepar")
  /\ pending' = pending \ {c}
  /\ lastOp' = [op |-> "reject", call |-> c.call]
  /\ UNCHANGED <<keyCache, calls, issued, order, clearedAt, symVars, msgVars, srvVars>>

\* Mutant: only the entry written last is removed.
ClearKeyCache_OnlyLast ==
  /\ keyCache' = IF issued = <<>> THEN keyCache
                 ELSE [keyCache EXCEPT ![issued[Len(issued)].email] = NoEntry]
  /\ clearedAt' = calls
  /\ lastOp' = [op |-> "clear", call |-> 0]
  /\ UNCHANGED <<calls, pending, issued, keyResult, order, symVars, msgVars, srvVars>>

\* clearKeyCache() (lines 301-303).
ClearKeyCache ==
  /\ keyCache' = [e \in Emails |-> NoEntry]
  /\ clearedAt' = calls
  /\ lastOp' = [op |-> "clear", call |-> 0]
  /\ UNCHANGED <<calls, pending, issued, keyResult, order, symVars, msgVars, srvVars>>

\* generateKeyPair(email, passphrase) from call to return, no other
\* operation in between.
GenerateKeyPair(email, passphrase) ==
  /\ calls < MaxKeys
  /\ pending = {}
  /\ pgpMsg.kind = "none"
  /\ pgpCall.kind = "none"
  /\ LET keyPair == KeyPairOf(Len(issued) + 1, email, passphrase, Len(issued) + 1)
     IN /\ keyCache' = [keyCache EXCEPT ![email] = keyPair]
        /\ issued' = Append(issued, keyPair)
        /\ keyResult' = Returned(keyPair)
  /\ calls' = calls + 1
  /\ order' = Append(order, calls + 1)
  /\ lastOp' = [op |-> "resolve", call |-> calls + 1]
  /\ UNCHANGED <<pending, clearedAt, symVars, msgVars, srvVars>>

\* The keys callers hold.
KnownPublicKeys == {issued[i].publicKey : i \in 1..Len(issued)}
KnownPrivateKeys == {issued[i].privateKey : i \in 1..Len(issued)}
PassphraseArgs == {Str(p) : p \in Passphrases}

\* encryptMessage(message, recipientPublicKey, senderPrivateKey?, passphrase?)
EncryptMessage ==
  /\ pgpMsg.kind = "none"
  /\ pgpCall.kind = "none"
  /\ \E message \in MsgPlaintexts,
        recipientPublicKey \in KnownPublicKeys \cup {Garbage},
        senderPrivateKey \in KnownPrivateKeys \cup {Undefined},
        passphrase \in PassphraseArgs \cup {Undefined, Str("")} :
       pgpMsg' = [kind |-> "encryptMessage", data |-> message,
                  recipientPublicKey |-> recipientPublicKey,
                  senderPrivateKey |-> senderPrivateKey,
                  passphrase |-> passphrase,
                  result |-> EncryptMessageResult(message, recipientPublicKey,
                                                  senderPrivateKey, passphrase)]
  /\ UNCHANGED <<pgpCall, pgpResult, symVars, keyVars, srvVars>>

\* encryptFile(file, recipientPublicKey, senderPrivateKey?, passphrase?)
EncryptFile ==
  /\ pgpMsg.kind = "none"
  /\ pgpCall.kind = "none"
  /\ \E file \in FileSamples,
        recipientPublicKey \in KnownPublicKeys \cup {Garbage},
        senderPrivateKey \in KnownPrivateKeys \cup {Undefined},
        passphrase \in PassphraseArgs \cup {Undefined, Str("")} :
       pgpMsg' = [kind |-> "encryptFile", data |-> file,
                  recipientPublicKey |-> recipientPublicKey,
                  senderPrivateKey |-> senderPrivateKey,
                  passphrase |-> passphrase,
                  result |-> EncryptFileResult(file, recipientPublicKey,
                                               senderPrivateKey, passphrase)]
  /\ UNCHANGED <<pgpCall, pgpResult, symVars, keyVars, srvVars>>

\* What reaches the recipient: the ciphertext as sent, with its body
\* altered, or something that is no OpenPGP message.
Received(ciphertext) == {ciphertext, Altered(ciphertext), Garbage}

\* Mutant: when the private key given does not parse, the private key of a
\* cached pair is used in its place.
DecryptMessage_CachedKey ==
  /\ pgpMsg.kind = "encryptMessage"
  /\ pgpMsg.result.kind = "ok"
  /\ pgpCall.kind = "none"
  /\ \E encryptedMessage \in Received(pgpMsg.result.value),
        privateKey \in KnownPrivateKeys \cup {Garbage},
        passphrase \in PassphraseArgs,
        senderPublicKey \in KnownPublicKeys \cup {Undefined} :
       LET cached == {e \in Emails : keyCache[e] # NoEntry}
           usedKey == IF ReadPrivateKeyOk(privateKey) \/ cached = {} THEN privateKey
                      ELSE keyCache[CHOOSE e \in cached : TRUE].privateKey
       IN /\ pgpCall' = [kind |-> "decryptMessage", input |-> encryptedMessage,
                         privateKey |-> privateKey, passphrase |-> passphrase,
                         senderPublicKey |-> senderPublicKey]
          /\ pgpResult' = DecryptMessageResult(encryptedMessage, usedKey,
                                               passphrase, senderPublicKey)
  /\ UNCHANGED <<pgpMsg, symVars, keyVars, srvVars>>

\* decryptMessage(encryptedMessage, privateKey, passphrase, senderPublicKey?)
DecryptMessage ==
  /\ pgpMsg.kind = "encryptMessage"
  /\ pgpMsg.result.kind = "ok"
  /\ pgpCall.kind = "none"
  /\ \E encryptedMessage \in Received(pgpMsg.result.value),
        privateKey \in KnownPrivateKeys \cup {Garbage},
        passphrase \in PassphraseArgs,
        senderPublicKey \in KnownPublicKeys \cup {Undefined} :
       /\ pgpCall' = [kind |-> "decryptMessage", input |-> encryptedMessage,
                      privateKey |-> privateKey, passphrase |-> passphrase,
                      senderPublicKey |-> senderPublicKey]
       /\ pgpResult' = DecryptMessageResult(encryptedMessage, privateKey,
                                            passphrase, senderPublicKey)
  /\ UNCHANGED <<pgpMsg, symVars, keyVars, srvVars>>

\* decryptFile(encryptedData, privateKey, passphrase, senderPublicKey?)
DecryptFile ==
  /\ pgpMsg.kind = "encryptFile"
  /\ pgpMsg.result.kind = "ok"
  /\ pgpCall.kind = "none"
  /\ \E encryptedData \in Received(pgpMsg.result.value.encryptedData),
        privateKey \in KnownPrivateKeys \cup {Garbage},
        passphrase \in PassphraseArgs,
        senderPublicKey \in KnownPublicKeys \cup {Undefined} :
       /\ pgpCall' = [kind |-> "decryptFile", input |-> encryptedData,
                      privateKey |-> privateKey, passphrase |-> passphrase,
                      senderPublicKey |-> senderPublicKey]
       /\ pgpResult' = DecryptFileResult(encryptedData, privateKey,
                                         passphrase, senderPublicKey)
  /\ UNCHANGED <<pgpMsg, symVars, keyVars, srvVars>>

\* Key texts callers hand to the validators, getKeyEmail and exportPublicKey.
KeyInputs == KnownPublicKeys \cup KnownPrivateKeys \cup ForeignKeys \cup {Garbage}

\* validatePublicKey(publicKey)
ValidatePublicKey ==
  /\ pgpMsg.kind = "none"
  /\ pgpCall.kind = "none"
  /\ \E publicKey \in KeyInputs :
       /\ pgpCall' = [kind |-> "validatePublicKey", input |-> publicKey]
       /\ pgpResult' = ValidatePublicKeyResult(publicKey)
  /\ UNCHANGED <<pgpMsg, symVars, keyVars, srvVars>>

\* validatePrivateKey(privateKey, passphrase)
ValidatePrivateKey ==
  /\ pgpMsg.kind = "none"
  /\ pgpCall.kind = "none"
  /\ \E privateKey \in KeyInputs, passphrase \in PassphraseArgs \cup {Str("")} :
       /\ pgpCall' = [kind |-> "validatePrivateKey", input |-> privateKey,
                      passphrase |-> passphrase]
       /\ pgpResult' = ValidatePrivateKeyResult(privateKey, passphrase)
  /\ UNCHANGED <<pgpMsg, symVars, keyVars, srvVars>>

\* getKeyEmail(publicKey)
GetKeyEmail ==
  /\ pgpMsg.kind = "none"
  /\ pgpCall.kind = "none"
  /\ \E publicKey \in KeyInputs :
       /\ pgpCall' = [kind |-> "getKeyEmail", input |-> publicKey]
       /\ pgpResult' = GetKeyEmailResult(publicKey)
  /\ UNCHANGED <<pgpMsg, symVars, keyVars, srvVars>>

\* exportPublicKey(publicKey)
ExportPublicKey ==
  /\ pgpMsg.kind = "none"
  /\ pgpCall.kind = "none"
  /\ \E publicKey \in KeyInputs :
       /\ pgpCall' = [kind |-> "exportPublicKey", input |-> publicKey]
       /\ pgpResult' = ExportPublicKeyResult(publicKey)
  /\ UNCHANGED <<pgpMsg, symVars, keyVars, srvVars>>

\* The caller has the answer of one of these four calls and drops it.
FinishInspect ==
  /\ pgpMsg.kind = "none"
  /\ pgpCall.kind # "none"
  /\ pgpCall' = [kind |-> "none"]
  /\ pgpResult' = NoResult
  /\ UNCHANGED <<pgpMsg, symVars, keyVars, srvVars>>

\* The caller has its answer and drops the message and the result.
FinishMsg ==
  /\ pgpMsg.kind # "none"
  /\ pgpMsg' = [kind |-> "none"]
  /\ pgpCall' = [kind |-> "none"]
  /\ pgpResult' = NoResult
  /\ UNCHANGED <<symVars, keyVars, srvVars>>

----------------------------------------------------------------------------
(* The REST API: server/src/controllers/auth.controller.ts and
   server/src/controllers/models/User.ts                                   *)

\* Most tokens signed or drawn in one run.
MaxTokens == 3

\* Addresses of the User collection (the schema stores them in lower case).
Accounts == {"carol@example.com", "dana@example.com"}

\* Addresses as requests give them, and String.prototype.toLowerCase on them.
RequestEmails == {"carol@example.com", "Dana@Example.com"}
ToLowerCase(email) == IF email = "Dana@Example.com" THEN "dana@example.com" ELSE email

\* Passwords as requests give them: "Passw0rd", "Passw0rd1", "a".
Password1 == <<80, 97, 115, 115, 119, 48, 114, 100>>
Password2 == <<80, 97, 115, 115, 119, 48, 114, 100, 49>>
RequestPasswords == {Password1, Password2, <<97>>}

\* validatePassword, as the message of register states it: at least 8
\* characters, one number, one uppercase and one lowercase letter.
ValidatePassword(password) ==
  /\ Len(password) >= 8
  /\ \E i \in 1..Len(password) : password[i] \in 48..57
  /\ \E i \in 1..Len(password) : password[i] \in 65..90
  /\ \E i \in 1..Len(password) : password[i] \in 97..122

\* bcrypt.genSalt(10)
BcryptSalts == {1, 2}

\* bcrypt.hash(s, salt): the hash string holds the salt and a digest of the
\* first 72 bytes of s; 36 is "$", the character a hash string starts with.
BcryptMaxBytes == 72
BcryptHash(s, salt) ==
  LET bytes == Utf8Encode(s)
  IN <<36, salt>> \o SubSeq(bytes, 1, Min(Len(bytes), BcryptMaxBytes))

\* bcrypt.compare(s, hash): s hashed under the salt of the hash string.
BcryptCompare(s, hash) ==
  /\ Len(hash) >= 2
  /\ hash[1] = 36
  /\ BcryptHash(s, hash[2]) = hash

\* Tokens.  A JSON web token is determined by the key that signed it, its
\* payload, the second it was issued at and its expiry (0: no exp claim).
NoToken == [kind |-> "none", sub |-> "", n |-> 0, exp |-> 0]
GarbageToken == [kind |-> "garbage", sub |-> "", n |-> 0, exp |-> 0]
JwtSign(sub, key, iat, expiresIn) ==
  [kind |-> key, sub |-> sub, n |-> iat, exp |-> iat + expiresIn]
\* jwt.verify(token, key): signature and expiry.
JwtVerify(token, key) ==
  /\ token.kind = key
  /\ (token.exp = 0 \/ clock < token.exp)

\* '24h' and '1h', in seconds.
VerificationExpiresIn == 86400
ResetExpiresIn == 3600

\* crypto.randomBytes(32).toString('hex'): the k-th value drawn.
RandomHexToken(k) == [kind |-> "hex", sub |-> "", n |-> k, exp |-> 0]

\* createRefreshToken(user) of utils/token.utils: a token signed with
\* REFRESH_TOKEN_SECRET (refreshToken verifies it so) whose payload names the
\* user; the k-th token made, taken to differ from every earlier one.
CreateRefreshToken(user, k) ==
  [kind |-> "REFRESH_TOKEN_SECRET", sub |-> user, n |-> k, exp |-> 0]

NoUser == [exists |-> FALSE]
UserDoc(password, isVerified, verificationToken, refreshToken) ==
  [exists |-> TRUE, password |-> password, isVerified |-> isVerified,
   verificationToken |-> verificationToken, refreshToken |-> refreshToken]

\* userSchema.pre('save') hooks on a document that is new: password and
\* email both count as modified, so the password is hashed and the
\* verification state is reset with a token drawn at random.
PreSaveNew(doc, salt, k) ==
  [doc EXCEPT !.password = BcryptHash(doc.password, salt),
              !.isVerified = FALSE,
              !.verificationToken = RandomHexToken(k)]

NoResponse == [op |-> "none", status |-> 0, message |-> ""]
Respond(op, status, message, req) ==
  [op |-> op, status |-> status, message |-> message, req |-> req]

PasswordMessage ==
  "Password must be at least 8 characters long and contain at least one number, one uppercase and one lowercase letter"

ResetMessage ==
  "If an account exists with this email, you will receive a password reset link"

\* AuthController.register (lines 16-79).  named: firstName and lastName are
\* given; mailOk: the mail service delivers.
Register(email, password, named, mailOk) ==
  LET req == [email |-> email, password |-> password]
      address == ToLowerCase(email)
  IN /\ tokenSeq < MaxTokens
     /\ IF email = "" \/ password = <<>> \/ ~named
          THEN /\ response' = Respond("register", 400, "All fields are required", req)
               /\ UNCHANGED <<users, sentMail, tokenSeq>>
        ELSE IF ~ValidatePassword(password)
          THEN /\ response' = Respond("register", 400, PasswordMessage, req)
               /\ UNCHANGED <<users, sentMail, tokenSeq>>
        ELSE IF users[address].exists
          THEN /\ response' = Respond("register", 409, "Email already registered", req)
               /\ UNCHANGED <<users, sentMail, tokenSeq>>
        ELSE \E salt \in BcryptSalts, hookSalt \in BcryptSalts :
               LET hashedPassword == BcryptHash(password, salt)
                   verificationToken == JwtSign(address, "JWT_SECRET", clock,
                                                VerificationExpiresIn)
                   user == UserDoc(hashedPassword, FALSE, verificationToken, NoToken)
               IN /\ users' = [users EXCEPT
                                 ![address] = PreSaveNew(user, hookSalt, tokenSeq + 1)]
                  /\ tokenSeq' = tokenSeq + 1
                  /\ IF mailOk
                       THEN /\ sentMail' = sentMail \cup
                                 {[kind |-> "verification", to |-> email,
                                   token |-> verificationToken]}
                            /\ response' = Respond("register", 201,
                                                   "Registration successful", req)
                       ELSE /\ sentMail' = sentMail
                            /\ response' = Respond("register", 500,
                                                   "Failed to send email", req)
     /\ UNCHANGED <<cookies, inflight, accepted, revoked, emails, timers, clock,
                    delivered, symVars, keyVars, msgVars>>

\* AuthController.verifyEmail (lines 148-185).
VerifyEmail(token) ==
  LET req == [token |-> token]
  IN /\ IF ~JwtVerify(token, "JWT_SECRET")
          THEN /\ response' = Respond("verifyEmail", 400,
                                      "Invalid or expired verification token", req)
               /\ users' = users
        ELSE IF ~(token.sub \in Accounts /\ users[token.sub].exists
                  /\ users[token.sub].verificationToken = token)
          THEN /\ response' = Respond("verifyEmail", 400,
                                      "Invalid or expired verification token", req)
               /\ users' = users
        ELSE /\ users' = [users EXCEPT ![token.sub].isVerified = TRUE,
                                       ![token.sub].verificationToken = NoToken]
             /\ response' = Respond("verifyEmail", 200, "Email verified successfully", req)
     /\ UNCHANGED <<sentMail, tokenSeq, cookies, inflight, accepted, revoked, emails,
                    timers, clock, delivered, symVars, keyVars, msgVars>>

\* AuthController.login (lines 84-143).
Login(email, password) ==
  LET req == [email |-> email, password |-> password]
      address == ToLowerCase(email)
  IN /\ tokenSeq < MaxTokens
     /\ IF email = "" \/ password = <<>>
          THEN /\ response' = Respond("login", 400, "Email and password are required", req)
               /\ UNCHANGED <<users, tokenSeq, cookies>>
        ELSE IF ~users[address].exists
          THEN /\ response' = Respond("login", 401, "Invalid credentials", req)
               /\ UNCHANGED <<users, tokenSeq, cookies>>
        ELSE IF ~users[address].isVerified
          THEN /\ response' = Respond("login", 401, "Please verify your email first", req)
               /\ UNCHANGED <<users, tokenSeq, cookies>>
        ELSE IF ~BcryptCompare(password, users[address].password)
          THEN /\ response' = Respond("login", 401, "Invalid credentials", req)
               /\ UNCHANGED <<users, tokenSeq, cookies>>
        ELSE LET refreshToken == CreateRefreshToken(address, tokenSeq + 1)
             IN /\ users' = [users EXCEPT ![address].refreshToken = refreshToken]
                /\ tokenSeq' = tokenSeq + 1
                /\ cookies' = cookies \cup {refreshToken}
                /\ response' = Respond("login", 200, "", req)
     /\ UNCHANGED <<sentMail, inflight, accepted, revoked, emails, timers, clock,
                    delivered, symVars, keyVars, msgVars>>

\* Most refreshToken requests between their read and their save at a time.
MaxInflight == 2

\* AuthController.refreshToken, lines 289-309: the cookie is read, the token
\* verified, the user read and compared, the new tokens made.  The request
\* then waits for user.save().
RefreshTokenCheck(refreshToken) ==
  LET req == [token |-> refreshToken]
  IN /\ Len(inflight) < MaxInflight
     /\ tokenSeq < MaxTokens
     /\ IF refreshToken = NoToken
          THEN /\ response' = Respond("refreshToken", 401, "Refresh token not found", req)
               /\ UNCHANGED <<inflight, tokenSeq>>
        ELSE IF ~JwtVerify(refreshToken, "REFRESH_TOKEN_SECRET")
          THEN /\ response' = Respond("refreshToken", 401, "Invalid refresh token", req)
               /\ UNCHANGED <<inflight, tokenSeq>>
        ELSE IF ~users[refreshToken.sub].exists
                  \/ users[refreshToken.sub].refreshToken # refreshToken
          THEN /\ response' = Respond("refreshToken", 401, "Invalid refresh token", req)
               /\ UNCHANGED <<inflight, tokenSeq>>
        ELSE /\ inflight' = Append(inflight,
                  [token |-> refreshToken,
                   newRefreshToken |-> CreateRefreshToken(refreshToken.sub, tokenSeq + 1)])
             /\ tokenSeq' = tokenSeq + 1
             /\ response' = response
     /\ UNCHANGED <<users, sentMail, cookies, accepted, revoked, emails, timers, clock,
                    delivered, symVars, keyVars, msgVars>>

\* AuthController.refreshToken, lines 310-321: user.save() writes the new
\* token, then the cookie is set and 200 answered.
RefreshTokenSave(i) ==
  LET req == inflight[i]
  IN /\ inflight' = [j \in 1..(Len(inflight) - 1) |->
                       IF j < i THEN inflight[j] ELSE inflight[j + 1]]
     /\ users' = [users EXCEPT ![req.token.sub].refreshToken = req.newRefreshToken]
     /\ cookies' = cookies \cup {req.newRefreshToken}
     /\ accepted' = Append(accepted, req.token)
     /\ response' = Respond("refreshToken", 200, "", [token |-> req.token])
     /\ UNCHANGED <<sentMail, tokenSeq, revoked, emails, timers, clock, delivered,
                    symVars, keyVars, msgVars>>

\* AuthController.logout (lines 340-363): findOneAndUpdate unsets the token
\* of the user that holds it.
Logout(refreshToken) ==
  /\ response' = Respond("logout", 200, "Logged out successfully",
                         [token |-> refreshToken])
  /\ IF refreshToken # NoToken
       THEN /\ users' = [a \in Accounts |->
                           IF users[a].exists /\ users[a].refreshToken = refreshToken
                             THEN [users[a] EXCEPT !.refreshToken = NoToken]
                             ELSE users[a]]
            /\ revoked' = revoked \cup {refreshToken}
       ELSE UNCHANGED <<users, revoked>>
  /\ UNCHANGED <<sentMail, tokenSeq, cookies, inflight, accepted, emails, timers, clock,
                 delivered, symVars, keyVars, msgVars>>

\* AuthController.forgotPassword (lines 190-229).  resetPasswordToken and
\* resetPasswordExpires are no paths of the schema (User.ts lines 40-45 name
\* them passwordResetToken and passwordResetExpires), so save() stores
\* neither.  Every exception, the ApiError of the missing email included, is
\* answered with 500.
ForgotPassword(email, mailOk) ==
  LET req == [email |-> email]
      address == ToLowerCase(email)
  IN /\ IF email = ""
          THEN /\ response' = Respond("forgotPassword", 500,
                    "An error occurred while processing your request", req)
               /\ sentMail' = sentMail
        ELSE IF ~users[address].exists
          THEN /\ response' = Respond("forgotPassword", 200, ResetMessage, req)
               /\ sentMail' = sentMail
        ELSE IF mailOk
          THEN /\ sentMail' = sentMail \cup
                    {[kind |-> "reset", to |-> email,
                      token |-> JwtSign(address, "JWT_SECRET", clock, ResetExpiresIn)]}
               /\ response' = Respond("forgotPassword", 200, ResetMessage, req)
        ELSE /\ sentMail' = sentMail
             /\ response' = Respond("forgotPassword", 500,
                    "An error occurred while processing your request", req)
     /\ UNCHANGED <<users, tokenSeq, cookies, inflight, accepted, revoked, emails,
                    timers, clock, delivered, symVars, keyVars, msgVars>>

\* AuthController.resetPassword (lines 234-282): the filter names paths no
\* stored document has, so findOne finds no user.
ResetPassword(token, password) ==
  LET req == [token |-> token, password |-> password]
  IN /\ IF password = <<>>
          THEN response' = Respond("resetPassword", 400, "New password is required", req)
        ELSE IF ~ValidatePassword(password)
          THEN response' = Respond("resetPassword", 400, PasswordMessage, req)
        ELSE response' = Respond("resetPassword", 400,
                                 "Invalid or expired reset token", req)
     /\ UNCHANGED <<users, sentMail, tokenSeq, cookies, inflight, accepted, revoked,
                    emails, timers, clock, delivered, symVars, keyVars, msgVars>>

\* Tokens a client can present: those mailed or set in a cookie, none, and
\* a string that is no token.
MailedTokens == {m.token : m \in sentMail}
PresentedTokens == MailedTokens \cup cookies \cup {NoToken, GarbageToken}


----------------------------------------------------------------------------
(* The REST API: server/src/controllers/email.controller.ts and the Email
   model (emailSchema)                                                     *)

\* Ids of Email documents; MalformedId is a string that is no ObjectId.
MaxEmails == 1
EmailIds == 1..MaxEmails
MalformedId == 0

\* A place of the collection that never held a document.
NoEmail == [exists |-> FALSE, gone |-> FALSE]

\* A stored document; deletedAt is -1 when the field is not set.
EmailDoc(userId, folder, deletedAt, isDeleted) ==
  [exists |-> TRUE, gone |-> FALSE, userId |-> userId, folder |-> folder,
   deletedAt |-> deletedAt, isDeleted |-> isDeleted]

\* What is left of a document when it is removed: the document as it was,
\* who removed it and when (history).
Removed(doc, by, at) ==
  [exists |-> FALSE, gone |-> TRUE, userId |-> doc.userId, folder |-> doc.folder,
   deletedAt |-> doc.deletedAt, isDeleted |-> doc.isDeleted, by |-> by, at |-> at]

\* The id a new document gets: one no document had before.
FreshIds == {i \in EmailIds : ~emails[i].exists /\ ~emails[i].gone}
NewId == CHOOSE i \in FreshIds : \A j \in FreshIds : i <= j

\* Recipient lists of the requests: none, a valid address, an invalid one.
RecipientLists == {<<>>, <<"bob@example.com">>, <<"bob">>}
IsValidEmail(recipient) == recipient = "bob@example.com"

\* EmailController.sendEmail (lines 15-72): the record is saved in SENT, then
\* the mail service is called; its failure is an ApiError of status 500.
SendEmail(sender, to, withBody, mailOk) ==
  LET req == [user |-> sender, to |-> to]
  IN /\ FreshIds # {}
     /\ IF to = <<>>
          THEN /\ response' = Respond("sendEmail", 400,
                                      "At least one recipient is required", req)
               /\ UNCHANGED <<emails, delivered>>
        ELSE IF \E i \in 1..Len(to) : ~IsValidEmail(to[i])
          THEN /\ response' = Respond("sendEmail", 400, "Invalid email address", req)
               /\ UNCHANGED <<emails, delivered>>
        ELSE IF ~withBody
          THEN /\ response' = Respond("sendEmail", 400,
                                      "Subject and content are required", req)
               /\ UNCHANGED <<emails, delivered>>
        ELSE /\ emails' = [emails EXCEPT ![NewId] = EmailDoc(sender, "sent", -1, FALSE)]
             /\ IF mailOk
                  THEN /\ delivered' = delivered \cup {NewId}
                       /\ response' = Respond("sendEmail", 200,
                                              "Email sent successfully", req)
                  ELSE /\ delivered' = delivered
                       /\ response' = Respond("sendEmail", 500,
                                              "Failed to send email", req)
     /\ UNCHANGED <<users, sentMail, tokenSeq, cookies, inflight, accepted, revoked,
                    timers, clock, symVars, keyVars, msgVars>>

\* EmailController.moveToTrash (lines 209-239): only the folder is set, so
\* deletedAt is not modified and the save starts no timer.
MoveToTrash(user, id) ==
  LET req == [user |-> user, id |-> id]
  IN /\ IF id = MalformedId
          THEN /\ response' = Respond("moveToTrash", 500,
                    "An error occurred while moving the email to trash", req)
               /\ emails' = emails
        ELSE IF ~(emails[id].exists /\ emails[id].userId = user)
          THEN /\ response' = Respond("moveToTrash", 404, "Email not found", req)
               /\ emails' = emails
        ELSE /\ emails' = [emails EXCEPT ![id].folder = "trash"]
             /\ response' = Respond("moveToTrash", 200, "Email moved to trash", req)
     /\ UNCHANGED <<users, sentMail, tokenSeq, cookies, inflight, accepted, revoked,
                    timers, clock, delivered, symVars, keyVars, msgVars>>

\* Seconds in thirty days.
ThirtyDays == 2592000
\* The longest delay setTimeout takes, 2^31 - 1 milliseconds, in whole
\* seconds; a longer delay is set to 1 millisecond.
TimeoutMaxSeconds == 2147483
\* Last value of the clock: forty days.
MaxClock == ThirtyDays + ThirtyDays \div 3

\* setTimeout(callback, delay): the seconds after which the callback is due
\* (1 millisecond counts as none).
TimeoutDelay(delay) == IF delay > TimeoutMaxSeconds \/ delay < 1 THEN 0 ELSE delay

\* emailSchema.methods.moveToFolder (lines 326-336) with the save it ends
\* in: the auto-delete hook (lines 359-373) starts a timer when deletedAt was
\* modified and is set.
MoveToFolder(id, folder) ==
  /\ emails[id].exists
  /\ LET deletedAt == IF folder = "trash" THEN clock ELSE -1
     IN /\ emails' = [emails EXCEPT ![id].folder = folder,
                                    ![id].deletedAt = deletedAt,
                                    ![id].isDeleted = (folder = "trash")]
        /\ timers' = IF deletedAt # emails[id].deletedAt /\ deletedAt # -1
                       THEN timers \cup {[id |-> id, due |-> clock + TimeoutDelay(ThirtyDays)]}
                       ELSE timers
  /\ UNCHANGED <<users, sentMail, tokenSeq, cookies, inflight, response, accepted,
                 revoked, clock, delivered, symVars, keyVars, msgVars>>

\* The callback of the timer (lines 364-370): Email.deleteOne({ _id }).
TimerFire(t) ==
  /\ t \in timers
  /\ clock >= t.due
  /\ timers' = timers \ {t}
  /\ emails' = IF emails[t.id].exists
                 THEN [emails EXCEPT ![t.id] = Removed(emails[t.id], "timer", clock)]
                 ELSE emails
  /\ UNCHANGED <<users, sentMail, tokenSeq, cookies, inflight, response, accepted,
                 revoked, clock, delivered, symVars, keyVars, msgVars>>

\* Time passes.
Tick(d) ==
  /\ clock + d <= MaxClock
  /\ clock' = clock + d
  /\ UNCHANGED <<users, sentMail, tokenSeq, cookies, inflight, response, accepted,
                 revoked, emails, timers, delivered, symVars, keyVars, msgVars>>

\* Mutant: the filter of findOneAndDelete does not name the folder.
DeleteEmail_AnyFolder(user, id) ==
  LET req == [user |-> user, id |-> id]
  IN /\ IF id = MalformedId
          THEN /\ response' = Respond("deleteEmail", 500,
                    "An error occurred while deleting the email", req)
               /\ emails' = emails
        ELSE IF ~(emails[id].exists /\ emails[id].userId = user)
          THEN /\ response' = Respond("deleteEmail", 404, "Email not found in trash", req)
               /\ emails' = emails
        ELSE /\ emails' = [emails EXCEPT ![id] = Removed(emails[id], "deleteEmail", clock)]
             /\ response' = Respond("deleteEmail", 200, "Email deleted permanently", req)
     /\ UNCHANGED <<users, sentMail, tokenSeq, cookies, inflight, accepted, revoked,
                    timers, clock, delivered, symVars, keyVars, msgVars>>

\* EmailController.deleteEmail (lines 244-271): findOneAndDelete removes the
\* document that matches id, user and folder in one step; an id that is no
\* ObjectId makes the query throw a CastError, answered with 500.
DeleteEmail(user, id) ==
  LET req == [user |-> user, id |-> id]
  IN /\ IF id = MalformedId
          THEN /\ response' = Respond("deleteEmail", 500,
                    "An error occurred while deleting the email", req)
               /\ emails' = emails
        ELSE IF ~(emails[id].exists /\ emails[id].userId = user
                  /\ emails[id].folder = "trash")
          THEN /\ response' = Respond("deleteEmail", 404, "Email not found in trash", req)
               /\ emails' = emails
        ELSE /\ emails' = [emails EXCEPT ![id] = Removed(emails[id], "deleteEmail", clock)]
             /\ response' = Respond("deleteEmail", 200, "Email deleted permanently", req)
     /\ UNCHANGED <<users, sentMail, tokenSeq, cookies, inflight, accepted, revoked,
                    timers, clock, delivered, symVars, keyVars, msgVars>>

----------------------------------------------------------------------------
(* Specifications                                                          *)

\* After construction of both services: some configured secret, nothing
\* encrypted yet, an empty key cache (constructor, line 10), no call made.
Init ==
  /\ secret \in Secrets
  /\ envelope = <<>>
  /\ origin = [kind |-> "none"]
  /\ symCall = [kind |-> "none"]
  /\ symResult = NoResult
  /\ earlier = <<>>
  /\ keyCache = [e \in Emails |-> NoEntry]
  /\ calls = 0
  /\ pending = {}
  /\ issued = <<>>
  /\ keyResult = NoResult
  /\ order = <<>>
  /\ clearedAt = -1
  /\ lastOp = [op |-> "none", call |-> 0]
  /\ pgpMsg = [kind |-> "none"]
  /\ pgpCall = [kind |-> "none"]
  /\ pgpResult = NoResult
  /\ users = [a \in Accounts |-> NoUser]
  /\ sentMail = {}
  /\ tokenSeq = 0
  /\ cookies = {}
  /\ inflight = <<>>
  /\ response = NoResponse
  /\ accepted = <<>>
  /\ revoked = {}
  /\ emails = [i \in EmailIds |-> NoEmail]
  /\ timers = {}
  /\ clock = 0
  /\ delivered = {}

\* The same, with the first secret configured.
IdleInit ==
  /\ secret = <<115, 49>>
  /\ envelope = <<>>
  /\ origin = [kind |-> "none"]
  /\ symCall = [kind |-> "none"]
  /\ symResult = NoResult
  /\ earlier = <<>>
  /\ keyCache = [e \in Emails |-> NoEntry]
  /\ calls = 0
  /\ pending = {}
  /\ issued = <<>>
  /\ keyResult = NoResult
  /\ order = <<>>
  /\ clearedAt = -1
  /\ lastOp = [op |-> "none", call |-> 0]
  /\ pgpMsg = [kind |-> "none"]
  /\ pgpCall = [kind |-> "none"]
  /\ pgpResult = NoResult
  /\ users = [a \in Accounts |-> NoUser]
  /\ sentMail = {}
  /\ tokenSeq = 0
  /\ cookies = {}
  /\ inflight = <<>>
  /\ response = NoResponse
  /\ accepted = <<>>
  /\ revoked = {}
  /\ emails = [i \in EmailIds |-> NoEmail]
  /\ timers = {}
  /\ clock = 0
  /\ delivered = {}

\* The API process at start: the encryption services as above, and a User
\* collection that holds the account of carol, verified and with the hash of
\* "Passw0rd" stored before this process started; no Email document.
ServerInit ==
  /\ secret = <<115, 49>>
  /\ envelope = <<>>
  /\ origin = [kind |-> "none"]
  /\ symCall = [kind |-> "none"]
  /\ symResult = NoResult
  /\ earlier = <<>>
  /\ keyCache = [e \in Emails |-> NoEntry]
  /\ calls = 0
  /\ pending = {}
  /\ issued = <<>>
  /\ keyResult = NoResult
  /\ order = <<>>
  /\ clearedAt = -1
  /\ lastOp = [op |-> "none", call |-> 0]
  /\ pgpMsg = [kind |-> "none"]
  /\ pgpCall = [kind |-> "none"]
  /\ pgpResult = NoResult
  /\ users = [a \in Accounts |->
                IF a = "carol@example.com"
                  THEN UserDoc(BcryptHash(Password1, 1), TRUE, NoToken, NoToken)
                  ELSE NoUser]
  /\ sentMail = {}
  /\ tokenSeq = 0
  /\ cookies = {}
  /\ inflight = <<>>
  /\ response = NoResponse
  /\ accepted = <<>>
  /\ revoked = {}
  /\ emails = [i \in EmailIds |-> NoEmail]
  /\ timers = {}
  /\ clock = 0
  /\ delivered = {}

SymNext ==
  \/ \E data \in SymPlaintexts : Encrypt(data)
  \/ \E s \in Secrets : Reconfigure(s)
  \/ DecryptIntact
  \/ Finish

Spec == Init /\ [][SymNext]_vars

TamperNext ==
  \/ \E data \in TamperPlaintexts : Encrypt(data)
  \/ \E s \in Secrets : Reconfigure(s)
  \/ DecryptIntact
  \/ DecryptTampered
  \/ Finish

SpecTamper == Init /\ [][TamperNext]_vars

\* Decryption of intact, changed and short envelopes under either secret.
MalformedNext ==
  \/ \E data \in TamperPlaintexts : Encrypt(data)
  \/ \E s \in Secrets : Reconfigure(s)
  \/ DecryptIntact
  \/ DecryptTampered
  \/ DecryptShort
  \/ Finish

SpecMalformed == Init /\ [][MalformedNext]_vars


\* Plaintexts of the repeated encryptions: "", "a", an unpaired surrogate.
FreshPlaintexts == {<<>>, <<97>>, <<55357>>}

FreshNext ==
  \/ \E data \in FreshPlaintexts : Encrypt(data)
  \/ \E data \in FreshPlaintexts : EncryptAgain(data)
  \/ DecryptIntact
  \/ DecryptEarlier
  \/ Finish

SpecFresh == Init /\ [][FreshNext]_vars

HashNext ==
  \/ \E data \in HashInputs : Hash(data)
  \/ \E data \in HashInputs : VerifyHash(data)
  \/ Finish

SpecHash == IdleInit /\ [][HashNext]_vars

\* Verification against stored values of every shape.
StoredNext ==
  \/ \E data \in StoredData : Hash(data)
  \/ \E data \in StoredData : VerifyStored(data)
  \/ \E password \in StoredData : VerifyPassword(password)
  \/ Finish

SpecStored == IdleInit /\ [][StoredNext]_vars

MsgNext ==
  \/ \E email \in Emails : GenerateKeyPair(email, PassphraseOf(email))
  \/ EncryptMessage
  \/ EncryptFile
  \/ DecryptMessage
  \/ DecryptFile
  \/ FinishMsg
  \/ ValidatePublicKey
  \/ ValidatePrivateKey
  \/ GetKeyEmail
  \/ ExportPublicKey
  \/ FinishInspect

SpecMsg == IdleInit /\ [][MsgNext]_vars

KeysNext ==
  \/ \E email \in Emails, passphrase \in Passphrases : GenerateKeyPairCall(email, passphrase)
  \/ \E c \in pending : GenerateKeyPairResolve(c)
  \/ \E c \in pending : GenerateKeyPairReject(c)
  \/ ClearKeyCache

SpecKeys == IdleInit /\ [][KeysNext]_vars

\* Registration, verification, login and password reset.
AuthNext ==
  \/ \E email \in RequestEmails \cup {""}, password \in RequestPasswords,
        named \in BOOLEAN, mailOk \in BOOLEAN : Register(email, password, named, mailOk)
  \/ \E token \in PresentedTokens : VerifyEmail(token)
  \/ \E email \in RequestEmails, password \in RequestPasswords \cup {<<>>} :
       Login(email, password)
  \/ \E email \in RequestEmails \cup {""}, mailOk \in BOOLEAN : ForgotPassword(email, mailOk)
  \/ \E token \in PresentedTokens, password \in RequestPasswords \cup {<<>>} :
       ResetPassword(token, password)

SpecAuth == ServerInit /\ [][AuthNext]_vars

\* Sessions: login, refresh requests that overlap, logout.
RefreshNext ==
  \/ \E email \in RequestEmails, password \in {Password1, Password2} :
       Login(email, password)
  \/ \E token \in PresentedTokens : RefreshTokenCheck(token)
  \/ \E i \in 1..Len(inflight) : RefreshTokenSave(i)
  \/ \E token \in PresentedTokens : Logout(token)

SpecRefresh == ServerInit /\ [][RefreshNext]_vars

\* The email controller and the Email model, timers included.
MailNext ==
  \/ \E sender \in Accounts, to \in RecipientLists, withBody \in BOOLEAN,
        mailOk \in BOOLEAN : SendEmail(sender, to, withBody, mailOk)
  \/ \E user \in Accounts, id \in EmailIds \cup {MalformedId} : MoveToTrash(user, id)
  \/ \E id \in EmailIds, folder \in {"inbox", "trash"} : MoveToFolder(id, folder)
  \/ \E t \in timers : TimerFire(t)
  \/ \E user \in Accounts, id \in EmailIds \cup {MalformedId} : DeleteEmail(user, id)

SpecMail == ServerInit /\ [][MailNext]_vars

\* The Email model over time: emails of carol are moved between folders
\* while the clock advances and timers fire.
TimerNext ==
  \/ \E mailOk \in BOOLEAN :
       SendEmail("carol@example.com", <<"bob@example.com">>, TRUE, mailOk)
  \/ \E id \in EmailIds, folder \in {"inbox", "trash"} : MoveToFolder(id, folder)
  \/ \E t \in timers : TimerFire(t)
  \/ \E d \in {ThirtyDays \div 3, ThirtyDays} : Tick(d)

SpecTimer == ServerInit /\ [][TimerNext]_vars

----------------------------------------------------------------------------
(* Claims about the symmetric component                                    *)

DecryptError == ApiError("Failed to decrypt data")

\* C1 as stated: for every plaintext P and the configured secret, decrypt of
\* the envelope that encrypt(P) returned gives back exactly P.
C1_RoundTripEveryString ==
  (symCall.kind = "intact" /\ secret = origin.secret)
    => symResult = Returned(origin.data)

\* C1 amended: the round trip gives back exactly P for every plaintext P that
\* holds no unpaired surrogate (the empty string included).
C1_RoundTripWellFormed ==
  (symCall.kind = "intact" /\ secret = origin.secret /\ WellFormed(origin.data))
    => symResult = Returned(origin.data)

\* C1 witness: U+1F600 (a surrogate pair) went through encrypt and decrypt.
C1_Witness ==
  /\ symCall.kind = "intact"
  /\ secret = origin.secret
  /\ origin.data = <<55357, 56832>>
  /\ symResult = Returned(<<55357, 56832>>)

\* C20: the decoded bytes of every envelope of encrypt are the salt (64
\* bytes), the IV (16 bytes), the authentication tag (16 bytes) and the
\* ciphertext in that order, and the slices decrypt takes at the offsets 0,
\* 64, 80 and 96 are exactly the salt, IV, tag and ciphertext of encrypt.
C20_EnvelopeLayout ==
  origin.kind = "encrypt" =>
    LET key == PBKDF2(origin.secret, origin.salt, iterations, keyLength)
        encrypted == GcmEncryptBytes(key, origin.iv, Utf8Encode(origin.data))
        tag == GcmTag(key, origin.iv, encrypted)
        parts == EnvelopeParts(envelope)
    IN /\ HexDecode(envelope) = origin.salt \o origin.iv \o tag \o encrypted
       /\ Len(origin.salt) = 64 /\ Len(origin.iv) = 16 /\ Len(tag) = 16
       /\ saltLength = 64
       /\ saltLength + ivLength = 80
       /\ saltLength + ivLength + tagLength = 96
       /\ parts.salt = origin.salt
       /\ parts.iv = origin.iv
       /\ parts.tag = tag
       /\ parts.encrypted = encrypted

\* C20 witness: an envelope with a ciphertext of four bytes (U+1F600) was
\* cut by decrypt, which returned the plaintext.
C20_Witness ==
  /\ origin.kind = "encrypt"
  /\ origin.data = <<55357, 56832>>
  /\ Len(EnvelopeParts(envelope).encrypted) = 4
  /\ Len(envelope) = 200
  /\ symCall.kind = "intact"
  /\ symResult.kind = "ok"

\* C21: decrypt of a string whose decoded length is below 96 bytes signals
\* the decryption error and returns no plaintext.
C21_ShortEnvelopeRejected ==
  (symCall.kind = "short"
     /\ Len(HexDecode(symCall.input)) < saltLength + ivLength + tagLength)
    => symResult = DecryptError

\* C22: whatever made decrypt fail (another secret, a changed tag, a changed
\* ciphertext, a changed salt or IV, a string too short), the error is the
\* same one: status 500, message "Failed to decrypt data".
C22_OneDecryptionError ==
  (symCall.kind \in {"intact", "tampered", "short"} /\ symResult.kind = "error")
    => /\ symResult.status = 500
       /\ symResult.message = "Failed to decrypt data"

\* C22 witness: decrypt failed on an envelope cut inside its IV, under the
\* secret it was made with, with the very error that the whole envelope
\* gives under the other secret and with a changed tag digit.
C22_Witness ==
  /\ origin.kind = "encrypt"
  /\ secret = origin.secret
  /\ symCall.kind = "short"
  /\ Len(HexDecode(symCall.input)) = saltLength + 3
  /\ symResult.kind = "error"
  /\ \A s \in Secrets \ {secret} : DecryptEnvelope(envelope, s) = symResult
  /\ LET pos == 2 * (saltLength + ivLength) + 1
     IN \A ch \in Replacements(envelope[pos]) :
          HexValue(ch) # HexValue(envelope[pos])
            => DecryptEnvelope([envelope EXCEPT ![pos] = ch], secret) = symResult

EncryptCalls ==
  IF origin.kind = "encrypt" THEN Append(earlier, Kept) ELSE earlier

\* Every envelope holds the salt and the IV its own call drew, and no two
\* envelopes share a salt or an IV or are the same string.
FreshSaltAndIv ==
  /\ \A i \in 1..Len(EncryptCalls) :
       LET call == EncryptCalls[i]
           bytes == HexDecode(call.envelope)
       IN /\ SubSeq(bytes, 1, saltLength) = call.salt
          /\ SubSeq(bytes, saltLength + 1, saltLength + ivLength) = call.iv
  /\ \A i, j \in 1..Len(EncryptCalls) :
       i # j => /\ EncryptCalls[i].salt # EncryptCalls[j].salt
                /\ EncryptCalls[i].iv # EncryptCalls[j].iv
                /\ EncryptCalls[i].envelope # EncryptCalls[j].envelope

RECURSIVE StripNul(_)
StripNul(t) ==
  IF t # <<>> /\ t[Len(t)] = 0 THEN StripNul(SubSeq(t, 1, Len(t) - 1)) ELSE t

----------------------------------------------------------------------------
(* Claims about the asymmetric component                                   *)

\* A text with no unpaired surrogate, no CR LF pair and no leading byte
\* order mark.
Portable(t) ==
  /\ WellFormed(t)
  /\ \A i \in 1..(Len(t) - 1) : ~(t[i] = 13 /\ t[i + 1] = 10)
  /\ (t = <<>> \/ t[1] # ByteOrderMark)

\* The ciphertext the last encryptMessage / encryptFile call returned.
Sent ==
  IF pgpMsg.kind = "encryptFile" THEN pgpMsg.result.value.encryptedData
  ELSE pgpMsg.result.value

\* The last decrypt call was given the private key the message was encrypted
\* for and the passphrase that key was generated with.
RightKeyAndPassphrase ==
  /\ pgpCall.privateKey.kind = "priv"
  /\ pgpCall.privateKey.id = pgpCall.input.recipient
  /\ pgpCall.passphrase = Str(pgpCall.privateKey.lock)

\* decryptMessage was given what encryptMessage returned, with the matching
\* private key and its passphrase.
MessageRoundTrip ==
  /\ pgpCall.kind = "decryptMessage"
  /\ pgpCall.input = Sent
  /\ RightKeyAndPassphrase

\* A verifyHash or verifyPassword call on a stored value has returned.
VerifiedStored == symCall.kind \in {"verifyStored", "verifyPassword"}

\* The stored value decodes to a 64-byte salt followed by a 32-byte hash.
StoredWellShaped == Len(HexDecode(symCall.stored)) = saltLength + keyLength

\* C23 as stated: verifyHash and verifyPassword return a boolean for every
\* stored string, and false when the stored value does not decode to a
\* 64-byte salt followed by a 32-byte hash.
C23_MalformedStoredHashIsFalse ==
  VerifiedStored =>
    /\ symResult.kind = "ok"
    /\ symResult.value \in BOOLEAN
    /\ ~StoredWellShaped => symResult.value = FALSE

\* C23 amended: verifyHash and verifyPassword return a boolean exactly when
\* the stored value decodes to 96 bytes (64 of salt, 32 of hash); for every
\* other stored value they raise the error of status 500 with the message
\* "Failed to verify hash".
C23_MalformedStoredHashRaises ==
  VerifiedStored =>
    IF StoredWellShaped
      THEN /\ symResult.kind = "ok"
           /\ symResult.value \in BOOLEAN
           /\ (symCall.stored = envelope /\ symCall.data = origin.data)
                => symResult.value = TRUE
      ELSE /\ symResult.kind = "error"
           /\ symResult.status = 500
           /\ symResult.message = "Failed to verify hash"

\* C23 witness: verifyPassword was given a stored hash cut by one byte and
\* raised the error.
C23_Witness ==
  /\ symCall.kind = "verifyPassword"
  /\ symCall.data = origin.data
  /\ symCall.stored = SubSeq(envelope, 1, Len(envelope) - 2)
  /\ Len(HexDecode(symCall.stored)) = saltLength + keyLength - 1
  /\ symResult = ApiError("Failed to verify hash")

\* C2 as stated: for every plaintext P and every generated key pair,
\* decryptMessage(encryptMessage(P, pub), priv, pw).message equals P.
C2_MessageRoundTripEveryText ==
  MessageRoundTrip =>
    (pgpResult.kind = "ok" /\ pgpResult.value.message = pgpMsg.data)

\* C2 amended: the message round trip returns P for every plaintext P that
\* holds no unpaired surrogate, no CR LF pair and no leading byte order mark.
C2_MessageRoundTripPortable ==
  (MessageRoundTrip /\ Portable(pgpMsg.data)) =>
    (pgpResult.kind = "ok" /\ pgpResult.value.message = pgpMsg.data)

\* C2 witness: "a" LF was encrypted (unsigned), decrypted, and came back.
C2_Witness ==
  /\ MessageRoundTrip
  /\ pgpMsg.data = <<97, 10>>
  /\ pgpMsg.senderPrivateKey = Undefined
  /\ pgpResult.kind = "ok"
  /\ pgpResult.value.message = <<97, 10>>

\* C3: when a sender private key is supplied to encryptMessage or
\* encryptFile, the call returns a ciphertext signed by that key or fails;
\* an unsigned ciphertext is never returned.
C3_SigningRequestedSignsOrFails ==
  (pgpMsg.kind \in {"encryptMessage", "encryptFile"}
     /\ pgpMsg.senderPrivateKey.kind = "priv")
    => (pgpMsg.result.kind = "error" \/ Sent.signer = pgpMsg.senderPrivateKey.id)

\* decryptMessage was given a signed message as sent, the recipient's private
\* key and passphrase, and some sender's public key.
SignedAndVerifiedAgainstAKey ==
  /\ MessageRoundTrip
  /\ Sent.signer # 0
  /\ pgpCall.senderPublicKey.kind = "pub"

\* C4 as stated: decrypting a message M signed by A with A's public key gives
\* verified = true; with another public key it gives verified = false and
\* message = M, and raises no error.
C4_SignatureIntegrityEveryText ==
  SignedAndVerifiedAgainstAKey =>
    /\ pgpResult.kind = "ok"
    /\ IF pgpCall.senderPublicKey.id = Sent.signer
         THEN pgpResult.value.verified = TRUE
         ELSE /\ pgpResult.value.verified = FALSE
              /\ pgpResult.value.message = pgpMsg.data

\* C4 amended: as C4, the returned message being M itself for every M that
\* holds no unpaired surrogate, no CR LF pair and no leading byte order mark.
C4_SignatureIntegrityPortable ==
  SignedAndVerifiedAgainstAKey =>
    /\ pgpResult.kind = "ok"
    /\ IF pgpCall.senderPublicKey.id = Sent.signer
         THEN pgpResult.value.verified = TRUE
         ELSE /\ pgpResult.value.verified = FALSE
              /\ Portable(pgpMsg.data) => pgpResult.value.message = pgpMsg.data

\* C4 witness: a signed message was decrypted with the public key of an
\* identity that did not sign it: unverified, and the text is returned.
C4_Witness ==
  /\ SignedAndVerifiedAgainstAKey
  /\ pgpCall.senderPublicKey.id # Sent.signer
  /\ pgpMsg.data = <<97>>
  /\ pgpResult = Returned([message |-> <<97>>, verified |-> FALSE])

\* C5: in every result of decryptMessage and decryptFile, verified is true
\* only if the ciphertext is signed, a sender public key was supplied and the
\* signature checks against that key; it is false when the ciphertext is
\* unsigned or no sender public key was supplied.
C5_VerifiedOnlyIfChecked ==
  (pgpCall.kind \in {"decryptMessage", "decryptFile"} /\ pgpResult.kind = "ok") =>
    /\ pgpResult.value.verified =>
         /\ pgpCall.input.signer # 0
         /\ pgpCall.senderPublicKey.kind = "pub"
         /\ pgpCall.senderPublicKey.id = pgpCall.input.signer
    /\ (pgpCall.input.signer = 0 \/ pgpCall.senderPublicKey = Undefined)
         => pgpResult.value.verified = FALSE

\* C5 witness: a signed file was decrypted without a sender public key, and
\* the result says verified = false.
C5_Witness ==
  /\ pgpCall.kind = "decryptFile"
  /\ pgpResult.kind = "ok"
  /\ pgpCall.input.signer # 0
  /\ pgpCall.senderPublicKey = Undefined
  /\ pgpResult.value.verified = FALSE

\* The passphrase given to the last decrypt call does not unlock its key.
WrongPassphrase ==
  /\ pgpCall.privateKey.kind = "priv"
  /\ pgpCall.passphrase # Str(pgpCall.privateKey.lock)

\* C8: decryptMessage with a wrong passphrase, a corrupted ciphertext or a
\* private key of another recipient raises an error and returns no message.
C8_DecryptFailureReturnsNoMessage ==
  ( /\ pgpCall.kind = "decryptMessage"
    /\ \/ WrongPassphrase
       \/ pgpCall.input # Sent
       \/ (pgpCall.privateKey.kind = "priv" /\ pgpCall.privateKey.id # Sent.recipient) )
    => pgpResult = Threw("Kunne ikke dekryptere beskeden")

\* C8 witness: an intact message, the right passphrase of a key pair the
\* message was not encrypted for, and the call threw.
C8_Witness ==
  /\ pgpCall.kind = "decryptMessage"
  /\ pgpCall.input = Sent
  /\ pgpCall.privateKey.kind = "priv"
  /\ pgpCall.privateKey.id # Sent.recipient
  /\ ~WrongPassphrase
  /\ pgpResult.kind = "error"

\* C9: the error decryptMessage raises for a wrong passphrase differs from
\* the error it raises for a corrupted ciphertext (right key, right
\* passphrase) and from the error it raises for an unparseable key.
C9_WrongPassphraseErrorDistinct ==
  (pgpCall.kind = "decryptMessage" /\ WrongPassphrase) =>
    /\ pgpResult.kind = "error"
    /\ pgpResult # DecryptMessageResult(Garbage, pgpCall.privateKey,
                                        Str(pgpCall.privateKey.lock), Undefined)
    /\ pgpResult # DecryptMessageResult(pgpCall.input, Garbage,
                                        pgpCall.passphrase, Undefined)

\* C10: when generateKeyPair(identity, passphrase) returns a key pair, the
\* cache entry of that identity is that key pair and the entries of all
\* other identities are as before.
C10_CacheHoldsReturnedPair ==
  [][ Len(issued') = Len(issued) + 1 =>
        LET keyPair == issued'[Len(issued')]
        IN /\ keyResult' = Returned(keyPair)
           /\ keyCache'[keyPair.email] = keyPair
           /\ \A e \in Emails \ {keyPair.email} : keyCache'[e] = keyCache[e] ]_vars

\* C10 witness: an identity generated twice; its entry is the second pair.
C10_Witness ==
  /\ Len(issued) = 2
  /\ issued[1].email = issued[2].email
  /\ keyCache[issued[2].email] = issued[2]
  /\ keyResult = Returned(issued[2])

\* The pair generateKeyPair returned whose public key is k.
MadeByGenerate(k) == \E i \in 1..Len(issued) : issued[i].publicKey = k

\* C15: validatePublicKey, validatePrivateKey and getKeyEmail throw for no
\* input; the validators answer false exactly when the key does not parse or
\* (validatePrivateKey) does not unlock; getKeyEmail answers the identity a
\* generated key was made for, and null for an unparseable key and for a key
\* whose user IDs hold no address.
C15_ValidatorsNeverThrow ==
  /\ pgpCall.kind \in {"validatePublicKey", "validatePrivateKey", "getKeyEmail"}
       => pgpResult.kind = "ok"
  /\ pgpCall.kind = "validatePublicKey"
       => (pgpResult.value = FALSE <=> pgpCall.input = Garbage)
  /\ pgpCall.kind = "validatePrivateKey"
       => (pgpResult.value = TRUE <=>
             /\ pgpCall.input.kind = "priv"
             /\ pgpCall.input.lock # ""
             /\ pgpCall.passphrase = Str(pgpCall.input.lock))
  /\ pgpCall.kind = "getKeyEmail"
       => /\ \A i \in 1..Len(issued) :
               pgpCall.input = issued[i].publicKey
                 => pgpResult.value = [kind |-> "string", pieces |-> <<issued[i].email>>]
          /\ ( \/ pgpCall.input = Garbage
               \/ (pgpCall.input.kind \in {"pub", "priv"} /\
                   \A i \in 1..Len(pgpCall.input.userIDs) :
                      "email" \notin DOMAIN pgpCall.input.userIDs[i]) )
               => pgpResult.value = Null

\* C15 witness: getKeyEmail was given the public key generated second, for
\* the second identity, and answered that identity.
C15_Witness ==
  /\ pgpCall.kind = "getKeyEmail"
  /\ Len(issued) = 2
  /\ issued[1].email # issued[2].email
  /\ pgpCall.input = issued[2].publicKey
  /\ pgpResult = Returned([kind |-> "string", pieces |-> <<issued[2].email>>])

\* decryptFile was given what encryptFile returned, with the matching private
\* key and its passphrase.
FileRoundTrip ==
  /\ pgpCall.kind = "decryptFile"
  /\ pgpCall.input = Sent
  /\ RightKeyAndPassphrase

----------------------------------------------------------------------------
(* Claims about the key cache                                              *)

EmptyCache == [e \in Emails |-> NoEntry]

\* The pair generateKeyPair returned last.
LastIssued == issued[Len(issued)]

\* The pair returned last for identity e, NoEntry if none was.
LastIssuedFor(e) ==
  LET I == {i \in 1..Len(issued) : issued[i].email = e}
  IN IF I = {} THEN NoEntry ELSE issued[CHOOSE i \in I : \A j \in I : j <= i]

\* C11: with no clearKeyCache in between, the cache entry of every identity
\* is the pair of the generateKeyPair call for it that completed last,
\* whichever call started first; calls for different identities each leave
\* their pair in the cache.
C11_LastCompletedWins ==
  clearedAt = -1 => \A e \in Emails : keyCache[e] = LastIssuedFor(e)

\* C11 witness: two overlapping calls for one identity, the call that
\* started second completed first, and the entry is the pair of the call that
\* started first.
C11_Witness ==
  /\ clearedAt = -1 /\ pending = {} /\ order = <<2, 1>>
  /\ issued[1].email = issued[2].email
  /\ keyCache[issued[2].email] = issued[2]

\* C12: in the state right after clearKeyCache() no identity has an entry.
C12_ClearEmptiesCache ==
  lastOp.op = "clear" => keyCache = EmptyCache

\* C12 witness: two pairs for two identities had been generated, and
\* clearKeyCache ran last.
C12_Witness ==
  /\ lastOp.op = "clear"
  /\ clearedAt = 2
  /\ Len(issued) = 2
  /\ issued[1].email # issued[2].email
  /\ keyCache = EmptyCache

\* C13: when openpgp.generateKey fails, generateKeyPair throws, returns no
\* pair, and the cache is as it was before.
C13_FailedGenerationLeavesCache ==
  [][ (lastOp'.op = "reject" /\ lastOp' # lastOp) =>
        /\ keyResult'.kind = "error"
        /\ issued' = issued
        /\ keyCache' = keyCache ]_vars

\* C13 witness: a call for an identity that has an entry failed, and the
\* entry is still there.
C13_Witness ==
  /\ lastOp.op = "reject"
  /\ keyResult.kind = "error"
  /\ Len(issued) = 1
  /\ keyCache[issued[1].email] = issued[1]
  /\ clearedAt = -1

\* The outcome of the last call of each operation is the one its arguments
\* alone determine.
OutcomeFromArguments ==
  /\ pgpMsg.kind = "encryptMessage" =>
       pgpMsg.result = EncryptMessageResult(pgpMsg.data, pgpMsg.recipientPublicKey,
                                            pgpMsg.senderPrivateKey, pgpMsg.passphrase)
  /\ pgpMsg.kind = "encryptFile" =>
       pgpMsg.result = EncryptFileResult(pgpMsg.data, pgpMsg.recipientPublicKey,
                                         pgpMsg.senderPrivateKey, pgpMsg.passphrase)
  /\ pgpCall.kind = "decryptMessage" =>
       pgpResult = DecryptMessageResult(pgpCall.input, pgpCall.privateKey,
                                        pgpCall.passphrase, pgpCall.senderPublicKey)
  /\ pgpCall.kind = "decryptFile" =>
       pgpResult = DecryptFileResult(pgpCall.input, pgpCall.privateKey,
                                     pgpCall.passphrase, pgpCall.senderPublicKey)
  /\ pgpCall.kind = "validatePublicKey" =>
       pgpResult = ValidatePublicKeyResult(pgpCall.input)
  /\ pgpCall.kind = "validatePrivateKey" =>
       pgpResult = ValidatePrivateKeyResult(pgpCall.input, pgpCall.passphrase)
  /\ pgpCall.kind = "getKeyEmail" => pgpResult = GetKeyEmailResult(pgpCall.input)
  /\ pgpCall.kind = "exportPublicKey" => pgpResult = ExportPublicKeyResult(pgpCall.input)

\* C19: a step of encryptMessage, decryptMessage, encryptFile, decryptFile,
\* validatePublicKey, validatePrivateKey, getKeyEmail or exportPublicKey
\* leaves the key cache as it was, and its outcome is determined by its
\* arguments, whatever the cache holds.
C19_OperationsIgnoreCache ==
  /\ [][ <<pgpMsg, pgpCall, pgpResult>>' # <<pgpMsg, pgpCall, pgpResult>>
          => keyCache' = keyCache ]_vars
  /\ []OutcomeFromArguments

\* C19 witness: decryptMessage succeeded with a private key whose pair is no
\* longer in the cache (a later pair of the same identity replaced it).
C19_Witness ==
  /\ pgpCall.kind = "decryptMessage"
  /\ pgpResult.kind = "ok"
  /\ \A e \in Emails :
       keyCache[e] # NoEntry => keyCache[e].privateKey # pgpCall.privateKey

\* C18 as stated: after clearKeyCache the cache is empty until a call made
\* after the clear completes, and a call that was waiting when the cache was
\* cleared leaves its pair out of the cache.
C18_InFlightCallLeavesCacheEmpty ==
  /\ (clearedAt >= 0 /\ \A i \in 1..Len(order) : order[i] <= clearedAt)
       => keyCache = EmptyCache
  /\ (lastOp.op = "resolve" /\ lastOp.call <= clearedAt)
       => keyCache[LastIssued.email] # LastIssued

\* C18 amended: an empty cache stays empty until some generateKeyPair call
\* completes, and a call that was waiting when the cache was cleared puts
\* its pair into the cache when it completes.
C18_InFlightCallRepopulatesCache ==
  [][ /\ (keyCache = EmptyCache /\ keyCache' # EmptyCache)
         => (lastOp'.op = "resolve" /\ lastOp' # lastOp)
      /\ (lastOp'.op = "resolve" /\ lastOp' # lastOp /\ lastOp'.call <= clearedAt)
         => keyCache' = [keyCache EXCEPT ![issued'[Len(issued')].email] =
                                            issued'[Len(issued')]] ]_vars

\* C18 witness: a call made before the last clear completed after it, and
\* its pair is the only entry of the cache.
C18_Witness ==
  /\ lastOp.op = "resolve"
  /\ lastOp.call <= clearedAt
  /\ keyCache = [EmptyCache EXCEPT ![LastIssued.email] = LastIssued]

----------------------------------------------------------------------------
(* Claims about the REST API                                               *)

\* A request with a token that an earlier refresh was answered 200 for, or
\* that logout was given, is not taken beyond the comparison with the stored
\* token (it is answered 401).
SpentTokenRejected ==
  Len(inflight') > Len(inflight) =>
    LET T == inflight'[Len(inflight')].token
    IN /\ T \notin revoked
       /\ \A i \in 1..Len(accepted) : accepted[i] # T

\* No token was answered 200 twice.
AcceptedOnce ==
  \A i, j \in 1..Len(accepted) : i # j => accepted[i] # accepted[j]

\* C24: a refresh token is accepted at most once: after a refresh answered
\* 200 for token T, or after logout with T, every later request with T is
\* answered 401, and of two overlapping requests with the same T at most one
\* is answered 200.
C24_RefreshTokenAcceptedOnce ==
  /\ [][SpentTokenRejected]_vars
  /\ []AcceptedOnce

C28_ForgotPasswordSameResponse ==
  (response.op = "forgotPassword" /\ response.req.email # "")
    => /\ response.status = 200
       /\ response.message = ResetMessage

\* C27: the timer started when an email is moved to the trash removes the
\* email only if it is still in the trash, and not before 30 days have
\* passed since it was moved there.
C27_TimerRemovesAfterThirtyDaysInTrash ==
  \A id \in EmailIds :
    (emails[id].gone /\ emails[id].by = "timer")
      => /\ emails[id].folder = "trash"
         /\ emails[id].deletedAt # -1
         /\ emails[id].at - emails[id].deletedAt >= ThirtyDays

\* What a deleteEmail step may do to the collection: remove the document
\* the request names, which belongs to the requesting user and is in the
\* trash, and touch no other.
RemovesOwnTrashOnly ==
  \A id \in EmailIds :
    emails'[id] # emails[id]
      => /\ id = response'.req.id
         /\ emails[id].exists
         /\ emails[id].userId = response'.req.user
         /\ emails[id].folder = "trash"
         /\ emails'[id].gone

\* A step in which deleteEmail writes its response.
DeleteEmailStep == response' # response /\ response'.op = "deleteEmail"

\* C29 as stated: deleteEmail removes an email only if it belongs to the
\* requesting user and is in the trash; in every other case it answers 404
\* and the stored emails are unchanged.
C29_DeleteOwnTrashElse404 ==
  [][ DeleteEmailStep =>
        /\ RemovesOwnTrashOnly
        /\ IF emails' # emails THEN response'.status = 200
           ELSE response'.status = 404 ]_vars

\* C29 amended: deleteEmail removes an email only if it belongs to the
\* requesting user and is in the trash; in every other case the stored
\* emails are unchanged and the answer is 404, or 500 when the id given is
\* no ObjectId.
C29_DeleteOwnTrashElseError ==
  [][ DeleteEmailStep =>
        /\ RemovesOwnTrashOnly
        /\ IF emails' # emails THEN response'.status = 200
           ELSE IF response'.req.id = MalformedId THEN response'.status = 500
           ELSE response'.status = 404 ]_vars

\* C29 witness: deleteEmail answered 404 for an email of the requesting user
\* that is stored but not in the trash.
C29_Witness ==
  /\ response.op = "deleteEmail"
  /\ response.status = 404
  /\ response.req.id \in EmailIds
  /\ emails[response.req.id].exists
  /\ emails[response.req.id].userId = response.req.user
  /\ emails[response.req.id].folder = "sent"

\* C30: a record is in a SENT folder only if the mail service delivered the
\* email; when delivery failed sendEmail answered with an error and left no
\* SENT record.
C30_SentOnlyIfDelivered ==
  \A id \in EmailIds :
    (emails[id].exists /\ emails[id].folder = "sent") => id \in delivered

====
